---- MODULE Spec2Model ----
(***************************************************************************)
(* Verification model of solana-snapshot-etl.                              *)
(*                                                                         *)
(*   SpecLoader : ArchiveSnapshotLoader and UnpackedSnapshotLoader         *)
(*                (src/src/lib.rs)                                         *)
(*   SpecSqlite : the SQLite export and its temp-file discipline           *)
(*                (src/src/bin/solana-snapshot-etl/{main,sqlite}.rs)       *)
(*   SpecPar    : par_iter_append_vecs (src/src/parallel.rs)               *)
(*                                                                         *)
(* File and entry names are sequences of one-character strings, so that    *)
(* the name parsers are modelled by what they do.                          *)
(***************************************************************************)
EXTENDS Integers, Sequences, FiniteSets, TLC

VARIABLES
    \* ---- snapshot loaders (lib.rs) ----
    kind,               \* "archive" | "unpacked" | "none"
    tar,                \* archive input: the tar stream, a sequence of entries
    dir,                \* unpacked input: the snapshot directory
    manifestIdx,        \* input: content of the manifest file (0 = malformed)
    openResult,         \* result of open(): "none" before the call
    accounts_db_fields, \* loader field: slot -> sequence of StorageEntry
    entries,            \* ArchiveSnapshotLoader.entries : Option<tar::Entries>
    it,                 \* the iterator returned by iter(), while it is alive
    iterCalls,          \* number of iter() calls made on the loader
    out,                \* items the iterators have yielded, in order
    visited,            \* tar entries the program has advanced past, in order
                        \* (unpacked: what open() touched on the file system)
    \* ---- SQLite export (main.rs, sqlite.rs) ----
    spc,                \* position of the export
    fsTarget,           \* file at the target path: "absent" | "old" | "db"
    fsTemp,             \* file at _<name>.tmp: "absent" | "stale" | "db"
    guardPath,          \* TempFileGuard.path is Some
    dbOpen,             \* the rusqlite Connection is alive
    queryOnly,          \* PRAGMA query_only has been set
    ingested,           \* AppendVecs passed to Worker::on_append_vec with Ok
    sqlInput,           \* input: the AppendVec iterator's items
    sqlNext,            \* items of sqlInput consumed
    sqlHistory,         \* steps insert_all has taken, in order
    targetAtStart,      \* fsTarget when the export started
    exporter,           \* "main": _main of main.rs | "indexer": SqliteIndexer
    \* ---- parallel driver (parallel.rs) ----
    num_threads,        \* input
    parInput,           \* input: the AppendVec iterator's items
    parNext,            \* items of parInput pulled by the driver
    ppc,                \* position of the driver
    held,               \* the AppendVec the driver holds awaiting send (0: none)
    chan,               \* the bounded channel's queue
    txAlive,            \* the Sender is alive
    wstate,             \* per worker: "recv" | "busy" | "exited" | "panicked"
    wcur,               \* per worker: the AppendVec in on_append_vec (0: none)
    accepted,           \* AppendVecs whose on_append_vec returned Ok
    received,           \* AppendVecs received by workers, in order
    parResult,          \* "none" | "Ok" | "Err"
    \* ---- append_vec_iter (lib.rs) ----
    avLen,              \* input: AppendVec.len(), the accounts_current_len
    avRecs,             \* input: data_len of the records written to the buffer
    avpc,               \* "idle" | "loop" | "iter" | "done"
    offsets,            \* the Vec<usize> append_vec_iter collects
    offset,             \* the loop's current offset
    handles,            \* offsets of the handles the returned iterator yielded
    \* ---- one snapshot read as an archive and as its extracted directory ----
    eqTar,              \* input: the archive
    eqManifest,         \* input: content of its manifest file (0 = malformed)
    eqpc,               \* "idle" | "start" | "extracted" | "done"
    eqDir,              \* the directory the archive extracts to
    eqArchive,          \* what the archive loader returned and yielded
    eqUnpacked,         \* what the unpacked loader returned and yielded
    \* ---- SQLite Worker (sqlite.rs) ----
    ingTokens,          \* input: Args.tokens
    ingVecs,            \* input: the AppendVecs of the snapshot
    ingOrder,           \* input: the order the iterator delivers them in
    ingpc,              \* "idle" | "run" | "done_ok" | "done_err"
    ingAv,              \* AppendVecs of the delivery order that are finished
    ingRec,             \* records of the current AppendVec that are finished
    tables,             \* Worker.db: the tables of the database
    progress,           \* Progress: the three counters
    ingLog,             \* per insert_account call: the record and the result
    \* ---- ProgramDumper (programs.rs) ----
    dumpInput,          \* input: the account records handed to the dumper
    dumppc,             \* "idle" | "run" | "done_ok" | "done_err" | "panicked"
    dumpNext,           \* records of dumpInput that are finished
    tarOut,             \* the entries appended to the output tar, in order
    dumpLog,            \* per insert_account call: the record and what it did
    \* ---- ProgressCounter (sqlite.rs) ----
    counter,            \* ProgressCounter.counter: the AtomicU64
    pending,            \* per thread: the count its inc() is about to publish
    positions,          \* the set_position calls on the progress bar, in order
    pbState             \* "live" | "finished" (the counter was dropped)

loaderVars == <<kind, tar, dir, manifestIdx, openResult, accounts_db_fields,
                entries, it, iterCalls, out, visited>>
sqlVars == <<spc, fsTarget, fsTemp, guardPath, dbOpen, queryOnly, ingested,
             sqlInput, sqlNext, sqlHistory, targetAtStart, exporter>>
parVars == <<num_threads, parInput, parNext, ppc, held, chan, txAlive,
             wstate, wcur, accepted, received, parResult>>
avVars == <<avLen, avRecs, avpc, offsets, offset, handles>>
eqVars == <<eqTar, eqManifest, eqpc, eqDir, eqArchive, eqUnpacked>>
ingVars == <<ingTokens, ingVecs, ingOrder, ingpc, ingAv, ingRec, tables, progress,
             ingLog>>
dumpVars == <<dumpInput, dumppc, dumpNext, tarOut, dumpLog>>
progVars == <<counter, pending, positions, pbState>>
extVars == <<avVars, eqVars, ingVars, dumpVars, progVars>>
vars == <<loaderVars, sqlVars, parVars, extVars>>

(***************************************************************************)
(* Bounds of the model.                                                    *)
(***************************************************************************)
MaxEntries == 3
MaxIterCalls == 2
MaxItems == 3
MaxThreads == 2

(***************************************************************************)
(* Generic helpers.                                                        *)
(***************************************************************************)
SeqsUpTo(S, n) == UNION {[1..k -> S] : k \in 0..n}

Range(s) == {s[i] : i \in 1..Len(s)}

NoDuplicates(s) == \A i, j \in 1..Len(s) : i # j => s[i] # s[j]

(***************************************************************************)
(* The database and the progress counters before an ingest.                *)
(***************************************************************************)
\* create_db: five empty tables.  A table with a primary key is the set of
\* its rows; token_metadata has none and is the sequence of its rows.
EmptyDb ==
    [ account |-> {}, token_mint |-> {}, token_account |-> {},
      token_multisig |-> {}, token_metadata |-> <<>> ]

ZeroProgress ==
    [ accounts_counter |-> 0, token_accounts_counter |-> 0,
      metaplex_accounts_counter |-> 0 ]

(***************************************************************************)
(* Names.                                                                  *)
(***************************************************************************)
DigitChars == {"0", "1", "2", "3", "4", "5", "6", "7", "8", "9"}

DigitVal(c) ==
    CASE c = "0" -> 0 [] c = "1" -> 1 [] c = "2" -> 2 [] c = "3" -> 3
      [] c = "4" -> 4 [] c = "5" -> 5 [] c = "6" -> 6 [] c = "7" -> 7
      [] c = "8" -> 8 [] c = "9" -> 9

None == -1

RECURSIVE DigitsValue(_)
DigitsValue(s) ==
    IF Len(s) = 0 THEN 0
    ELSE DigitsValue(SubSeq(s, 1, Len(s) - 1)) * 10 + DigitVal(s[Len(s)])

\* u64::from_str: an optional "+" and then at least one decimal digit, nothing
\* else.  None on failure.  The names of the model are short, so the value
\* never reaches 2^64 (where from_str fails with an overflow error).
U64FromStr(s) ==
    LET body == IF Len(s) > 0 /\ s[1] = "+" THEN Tail(s) ELSE s
    IN  IF Len(body) > 0 /\ \A i \in 1..Len(body) : body[i] \in DigitChars
        THEN DigitsValue(body)
        ELSE None

\* str::splitn(2, '.'): the part before the first '.', and the rest after it
\* (None when there is no '.').
FirstDot(s) ==
    IF \E i \in 1..Len(s) : s[i] = "."
    THEN CHOOSE i \in 1..Len(s) : s[i] = "." /\ \A j \in 1..(i - 1) : s[j] # "."
    ELSE 0

\* parse_append_vec_name: Some((slot, id)) or None.
parse_append_vec_name(name) ==
    LET d == FirstDot(name)
        part1 == IF d = 0 THEN name ELSE SubSeq(name, 1, d - 1)
        part2 == IF d = 0 THEN <<>> ELSE SubSeq(name, d + 1, Len(name))
        slot == U64FromStr(part1)
        id == U64FromStr(part2)
    IN  IF slot # None /\ id # None
        THEN [some |-> TRUE, slot |-> slot, id |-> id]
        ELSE [some |-> FALSE, slot |-> 0, id |-> 0]

AccountsName == <<"a", "c", "c", "o", "u", "n", "t", "s">>
SnapshotsName == <<"s", "n", "a", "p", "s", "h", "o", "t", "s">>

\* A path is the sequence of its components (all Component::Normal).
is_snapshot_manifest_file(path) ==
    /\ Len(path) >= 1 /\ path[1] = SnapshotsName
    /\ Len(path) >= 2 /\ U64FromStr(path[2]) # None
    /\ Len(path) >= 3
    /\ Len(path) = 3 /\ path[2] = path[3]

is_appendvec_file(path) ==
    /\ Len(path) >= 1 /\ path[1] = AccountsName
    /\ Len(path) >= 2
    /\ Len(path) = 2 /\ parse_append_vec_name(path[2]).some

\* Path::file_name: the last component.
file_name(path) == path[Len(path)]

(***************************************************************************)
(* Inputs of the loaders.                                                  *)
(***************************************************************************)
\* The manifests a snapshot may carry: AccountsDbFields.0, a map from slot to
\* its StorageEntry list.  Slot 7 of the third one lists id 1 twice, and id 2
\* with a length of one byte more than a record of no data bytes.
StorageEntry(id, len) == [id |-> id, accounts_current_len |-> len]

ManifestPool ==
    << [s \in {} |-> <<>>],
       [s \in {7} |-> <<StorageEntry(1, 280)>>],
       [s \in {7, 8} |->
            IF s = 7
            THEN <<StorageEntry(1, 144), StorageEntry(2, 137), StorageEntry(1, 3)>>
            ELSE <<StorageEntry(1, 272)>>] >>

\* A tar entry: entries.next() yields Err ("ioerr"), or an entry whose path()
\* fails ("badpath"), or an entry with a path and size bytes of data.  recs
\* is what an AppendVec file holds: the data_len of the records written from
\* offset 0 on, zero bytes after them.
TarEntry(path, size, recs) ==
    [kind |-> "ok", path |-> path, size |-> size, recs |-> recs]

IoErrEntry == [kind |-> "ioerr", path |-> <<>>, size |-> 0, recs |-> <<>>]

BadPathEntry == [kind |-> "badpath", path |-> <<>>, size |-> 0, recs |-> <<>>]

\* accounts/7.1 holds a record of 8 data bytes and one of none (280 bytes),
\* 7.2 and 9.1 one record of no data bytes (136 bytes), 7.3 less than a
\* record, x/8.1 280 zero bytes (two records of no data bytes and 8 bytes).
EntryPool ==
    { TarEntry(<<SnapshotsName, <<"7">>, <<"7">>>>, 1, <<>>),
      TarEntry(<<SnapshotsName, <<"7">>, <<"8">>>>, 1, <<>>),
      TarEntry(<<AccountsName, <<"7", ".", "1">>>>, 280, <<8, 0>>),
      TarEntry(<<AccountsName, <<"7", ".", "2">>>>, 136, <<0>>),
      TarEntry(<<AccountsName, <<"7", ".", "3">>>>, 3, <<>>),
      TarEntry(<<AccountsName, <<"9", ".", "1">>>>, 136, <<0>>),
      TarEntry(<<AccountsName, <<"7", ".", "x">>>>, 1, <<>>),
      TarEntry(<<<<"x">>, <<"8", ".", "1">>>>, 280, <<>>),
      IoErrEntry,
      BadPathEntry }

\* A file of the accounts/ directory.
DirFile(name, size, recs) == [name |-> name, size |-> size, recs |-> recs]

FilePool ==
    { DirFile(<<"7", ".", "1">>, 280, <<8, 0>>),
      DirFile(<<"7", ".", "2">>, 136, <<0>>),
      DirFile(<<"7", ".", "3">>, 3, <<>>),
      DirFile(<<"9", ".", "1">>, 136, <<0>>),
      DirFile(<<"7">>, 1, <<>>) }

StatusCacheName == <<"s", "t", "a", "t", "u", "s", "_", "c", "a", "c", "h", "e">>

\* Listings of snapshots/ (in read_dir order).
SnapListingPool ==
    { <<>>,
      <<<<"7">>>>,
      <<StatusCacheName>>,
      <<StatusCacheName, <<"7">>>>,
      <<<<"x">>, <<"8">>, StatusCacheName, <<"7">>>> }

\* The snapshot directory: whether snapshots/status_cache is a file, whether
\* snapshots/ can be listed, its listing, whether snapshots/N/N can be
\* opened, whether accounts/ can be listed, and its listing.
DirPool ==
    [ statusCache : BOOLEAN,
      snapshotsReadable : BOOLEAN,
      snapshots : SnapListingPool,
      manifestReadable : BOOLEAN,
      accountsReadable : BOOLEAN,
      accounts : SeqsUpTo(FilePool, MaxEntries) ]

EmptyDir ==
    [ statusCache |-> FALSE, snapshotsReadable |-> FALSE, snapshots |-> <<>>,
      manifestReadable |-> FALSE,
      accountsReadable |-> FALSE, accounts |-> <<>> ]

(***************************************************************************)
(* Records of an AppendVec: AppendVec::get_account.  Of the contents of a  *)
(* buffer only the data_len field of a StoredMeta decides where records    *)
(* lie: recs lists the data_len of the records written from offset 0 on,   *)
(* one after the other at 8-byte aligned offsets; the bytes after them are *)
(* zero.                                                                   *)
(***************************************************************************)
\* Sizes of the record headers.
StoredMetaSize == 48
AccountMetaSize == 56
HashSize == 32

\* u64_align!: round up to the next multiple of 8.
u64_align(x) == ((x + 7) \div 8) * 8

\* The offset at which record k of recs was written.
RECURSIVE RecStart(_, _)
RecStart(recs, k) ==
    IF k <= 1 THEN 0
    ELSE u64_align(RecStart(recs, k - 1) + StoredMetaSize + AccountMetaSize
                   + HashSize + recs[k - 1])

\* The data_len field of the StoredMeta read at an offset.
DataLenAt(recs, off) ==
    IF \E k \in 1..Len(recs) : RecStart(recs, k) = off
    THEN recs[CHOOSE k \in 1..Len(recs) : RecStart(recs, k) = off]
    ELSE 0

\* get_slice / get_type: size bytes at off, bounds-checked against the
\* length; the offset after them, aligned.
get_slice(len, off, size) ==
    IF off + size > len
    THEN [some |-> FALSE, next |-> 0]
    ELSE [some |-> TRUE, next |-> u64_align(off + size)]

\* AppendVec::get_account(offset): Some((record, next_offset)) or None.
get_account(len, recs, off) ==
    LET meta == get_slice(len, off, StoredMetaSize)
        account_meta == get_slice(len, meta.next, AccountMetaSize)
        hash == get_slice(len, account_meta.next, HashSize)
        data_len == DataLenAt(recs, off)
        data == get_slice(len, hash.next, data_len)
    IN  IF meta.some /\ account_meta.some /\ hash.some /\ data.some
        THEN [some |-> TRUE, data_len |-> data_len, data_end |-> hash.next + data_len,
              next_offset |-> data.next]
        ELSE [some |-> FALSE, data_len |-> 0, data_end |-> 0, next_offset |-> 0]

\* A loop that collects the offset after the record instead of its own.
PushedOffset_Next(off, next_offset) == next_offset

\* offsets.push(offset)
PushedOffset(off, next_offset) == off

\* A loop that does not move on.
NextLoopOffset_Stay(off, next_offset) == off

\* offset = next_offset
NextLoopOffset(off, next_offset) == next_offset

\* append_vec_iter: the offsets collected by the loop over get_account, from
\* off on; the iterator returned yields one handle per offset.
RECURSIVE OffsetsFrom(_, _, _)
OffsetsFrom(len, recs, off) ==
    LET r == get_account(len, recs, off)
    IN  IF ~r.some
        THEN <<>>
        ELSE <<off>> \o OffsetsFrom(len, recs, r.next_offset)

append_vec_iter(len, recs) == OffsetsFrom(len, recs, 0)

(***************************************************************************)
(* Items iter_streams yields: Ok(AppendVec) or Err(SnapshotError).  src is *)
(* the place of the tar entry or directory file it came from.              *)
(***************************************************************************)
OkItem(slot, id, len, src) ==
    [ok |-> TRUE, err |-> "", slot |-> slot, id |-> id, len |-> len, src |-> src]

ErrItem(err, src) ==
    [ok |-> FALSE, err |-> err, slot |-> 0, id |-> 0, len |-> 0, src |-> src]

\* AppendVec::new_from_reader / new_from_file: an AppendVec of current_len
\* bytes, or an I/O error when the source holds fewer bytes.
AppendVecNew(size, current_len, slot, id, src) ==
    IF current_len <= size
    THEN OkItem(slot, id, current_len, src)
    ELSE ErrItem("IOError", src)

\* known_vecs.iter().find(|entry| entry.id == id): the place of the first
\* StorageEntry with this id, 0 when there is none.  (id as usize is the
\* identity: usize has 64 bits on the supported targets.)
FindKnownVec(known_vecs, id) ==
    IF \E i \in 1..Len(known_vecs) : known_vecs[i].id = id
    THEN CHOOSE i \in 1..Len(known_vecs) :
            /\ known_vecs[i].id = id
            /\ \A j \in 1..(i - 1) : known_vecs[j].id # id
    ELSE 0

\* accounts_db_fields.0.get(&slot).map(|v| &v[..]).unwrap_or(&[])
KnownVecs(db, slot) == IF slot \in DOMAIN db THEN db[slot] ELSE <<>>

\* The current_len handed to the AppendVec constructor.
KnownLen(known_vec) == known_vec.accounts_current_len

\* UnpackedSnapshotLoader::open_append_vec and
\* ArchiveSnapshotLoader::process_entry (the same lookup).
OpenAppendVec(db, slot, id, size, src) ==
    LET known_vecs == KnownVecs(db, slot)
        k == FindKnownVec(known_vecs, id)
    IN  IF k = 0
        THEN ErrItem("UnexpectedAppendVec", src)
        ELSE AppendVecNew(size, KnownLen(known_vecs[k]), slot, id, src)

\* A process_entry that reads the whole tar entry instead of current_len bytes.
process_entry_EntrySize(db, entry, slot, id, src) ==
    IF FindKnownVec(KnownVecs(db, slot), id) = 0
    THEN ErrItem("UnexpectedAppendVec", src)
    ELSE OkItem(slot, id, entry.size, src)

process_entry(db, entry, slot, id, src) ==
    OpenAppendVec(db, slot, id, entry.size, src)

open_append_vec(db, slot, id, file, src) ==
    OpenAppendVec(db, slot, id, file.size, src)

\* deserialize_from of the manifest: the AccountsDbFields, or a bincode error.
NoFields == [s \in {} |-> <<>>]

DeserializeOk(m) == m # 0

DeserializeFields(m) == IF m = 0 THEN NoFields ELSE ManifestPool[m]

(***************************************************************************)
(* ArchiveSnapshotLoader::open_inner.                                      *)
(***************************************************************************)
\* The manifest search: the loop over entries.next(), from entry i on.  pos is
\* the number of entries consumed when the loop ends.
\* A scan that passes over AppendVecs met before the manifest.
RECURSIVE ScanFrom_SkipAppendVec(_, _)
ScanFrom_SkipAppendVec(t, i) ==
    IF i > Len(t)
    THEN [res |-> "NoSnapshotManifest", pos |-> Len(t)]
    ELSE IF t[i].kind # "ok"
    THEN [res |-> "IOError", pos |-> i]
    ELSE IF is_snapshot_manifest_file(t[i].path)
    THEN [res |-> "found", pos |-> i]
    ELSE ScanFrom_SkipAppendVec(t, i + 1)

RECURSIVE ScanFrom(_, _)
ScanFrom(t, i) ==
    IF i > Len(t)
    THEN [res |-> "NoSnapshotManifest", pos |-> Len(t)]
    ELSE IF t[i].kind # "ok"
    THEN [res |-> "IOError", pos |-> i]
    ELSE IF is_snapshot_manifest_file(t[i].path)
    THEN [res |-> "found", pos |-> i]
    ELSE IF is_appendvec_file(t[i].path)
    THEN [res |-> "UnexpectedAppendVec", pos |-> i]
    ELSE ScanFrom(t, i + 1)

ArchiveOpenInner(t, m) ==
    LET scan == ScanFrom(t, 1)
    IN  IF scan.res # "found"
        THEN [res |-> scan.res, pos |-> scan.pos, fields |-> NoFields]
        ELSE IF ~DeserializeOk(m)
        THEN [res |-> "BincodeError", pos |-> scan.pos, fields |-> NoFields]
        ELSE [res |-> "Ok", pos |-> scan.pos, fields |-> DeserializeFields(m)]

NoEntries == [some |-> FALSE, pos |-> 0, done |-> FALSE]

SomeEntries(pos) == [some |-> TRUE, pos |-> pos, done |-> FALSE]

\* The iterator of iter(): the position of iter_streams in its source, and
\* (front) the AppendVec flatten_ok is iterating with the offsets it still
\* holds.
NoHandles == [cur |-> ErrItem("", 0), rest |-> <<>>]

NoIter == [active |-> FALSE, src |-> "none", pos |-> 0, done |-> FALSE,
           front |-> NoHandles, ended |-> FALSE]

\* What a loader did with a snapshot: the result of open() and the items a
\* full traversal of iter() yielded.
NoRun == [res |-> "none", items |-> <<>>]

ArchiveOpen ==
    /\ kind = "archive"
    /\ openResult = "none"
    /\ LET r == ArchiveOpenInner(tar, manifestIdx)
       IN  /\ openResult' = r.res
           /\ accounts_db_fields' = r.fields
           /\ entries' = IF r.res = "Ok" THEN SomeEntries(r.pos) ELSE NoEntries
           /\ visited' = [i \in 1..r.pos |-> i]
    /\ UNCHANGED <<kind, tar, dir, manifestIdx, it, iterCalls, out>>
    /\ UNCHANGED <<sqlVars, parVars, extVars>>

(***************************************************************************)
(* ArchiveSnapshotLoader::iter / iter_streams.                             *)
(***************************************************************************)
\* An iter_streams that borrows the entries instead of taking them.
TakeEntries_Keep(e) == e

\* self.entries.take(): what is left in self.entries.
TakeEntries(e) == NoEntries

\* The call of iter(): the iterator owns what entries.take() returned.
ArchiveIter ==
    /\ kind = "archive"
    /\ openResult = "Ok"
    /\ ~it.active
    /\ iterCalls < MaxIterCalls
    /\ it' = [active |-> TRUE,
              src |-> IF entries.some THEN "entries" ELSE "none",
              pos |-> entries.pos, done |-> entries.done,
              front |-> NoHandles, ended |-> FALSE]
    /\ entries' = TakeEntries(entries)
    /\ iterCalls' = iterCalls + 1
    /\ UNCHANGED <<kind, tar, dir, manifestIdx, openResult, accounts_db_fields,
                   out, visited>>
    /\ UNCHANGED <<sqlVars, parVars, extVars>>

\* An iterator that walks the entries after the manifest from the last one
\* to the first.
RECURSIVE ArchiveNextItem_Reversed(_, _, _)
ArchiveNextItem_Reversed(t, pos, db) ==
    IF pos >= Len(t)
    THEN [has |-> FALSE, item |-> ErrItem("", 0), pos |-> Len(t), done |-> FALSE]
    ELSE LET i == Len(t) - (pos - ScanFrom(t, 1).pos)
             e == t[i]
         IN  IF e.kind # "ok"
             THEN [has |-> TRUE, item |-> ErrItem("IOError", i), pos |-> pos + 1,
                   done |-> e.kind = "ioerr"]
             ELSE LET p == parse_append_vec_name(file_name(e.path))
                  IN  IF ~p.some
                      THEN ArchiveNextItem_Reversed(t, pos + 1, db)
                      ELSE [has |-> TRUE,
                            item |-> process_entry(db, e, p.slot, p.id, i),
                            pos |-> pos + 1, done |-> FALSE]

\* One next() of the filter_map over the entries, from pos on: the entries it
\* advances past, and the item it yields (has = FALSE: None, the stream ended).
RECURSIVE ArchiveNextItem(_, _, _)
ArchiveNextItem(t, pos, db) ==
    IF pos >= Len(t)
    THEN [has |-> FALSE, item |-> ErrItem("", 0), pos |-> Len(t), done |-> FALSE]
    ELSE LET i == pos + 1
             e == t[i]
         IN  IF e.kind = "ioerr"
             THEN [has |-> TRUE, item |-> ErrItem("IOError", i), pos |-> i,
                   done |-> TRUE]
             ELSE IF e.kind = "badpath"
             THEN [has |-> TRUE, item |-> ErrItem("IOError", i), pos |-> i,
                   done |-> FALSE]
             ELSE LET p == parse_append_vec_name(file_name(e.path))
                  IN  IF ~p.some
                      THEN ArchiveNextItem(t, i, db)
                      ELSE [has |-> TRUE,
                            item |-> process_entry(db, e, p.slot, p.id, i),
                            pos |-> i, done |-> FALSE]

\* Items iter() yields: Ok(StoredAccountMetaHandle) or Err(SnapshotError).
\* StoredAccountMetaHandle::new(append_vec, offset): the handle of the record
\* at an offset of an AppendVec.
StoredAccountMetaHandleNew(append_vec, off) ==
    [ok |-> TRUE, err |-> "", slot |-> append_vec.slot, id |-> append_vec.id,
     len |-> append_vec.len, src |-> append_vec.src, offset |-> off]

\* An Err item of iter_streams passes through map_ok and flatten_ok as it is.
ErrHandle(e) ==
    [ok |-> FALSE, err |-> e.err, slot |-> 0, id |-> 0, len |-> 0,
     src |-> e.src, offset |-> 0]

\* One next() of iter_streams().map_ok(append_vec_iter).flatten_ok(): the
\* next handle of the AppendVec in hand, or the items of iter_streams up to
\* the first Err or the first AppendVec that holds a record.
RECURSIVE ArchiveIterStep(_, _, _, _, _)
ArchiveIterStep(t, pos, done, front, db) ==
    IF Len(front.rest) > 0
    THEN [has |-> TRUE,
          item |-> StoredAccountMetaHandleNew(front.cur, Head(front.rest)),
          pos |-> pos, done |-> done,
          front |-> [front EXCEPT !.rest = Tail(front.rest)]]
    ELSE IF done
    THEN [has |-> FALSE, item |-> ErrHandle(ErrItem("", 0)), pos |-> pos,
          done |-> done, front |-> NoHandles]
    ELSE LET n == ArchiveNextItem(t, pos, db)
         IN  IF ~n.has
             THEN [has |-> FALSE, item |-> ErrHandle(ErrItem("", 0)),
                   pos |-> n.pos, done |-> n.done, front |-> NoHandles]
             ELSE IF ~n.item.ok
             THEN [has |-> TRUE, item |-> ErrHandle(n.item), pos |-> n.pos,
                   done |-> n.done, front |-> NoHandles]
             ELSE ArchiveIterStep(t, n.pos, n.done,
                      [cur |-> n.item,
                       rest |-> append_vec_iter(n.item.len, t[n.item.src].recs)],
                      db)

\* call is the iter() call that produced an item.
Tagged(item, call) ==
    [ok |-> item.ok, err |-> item.err, slot |-> item.slot, id |-> item.id,
     len |-> item.len, src |-> item.src, offset |-> item.offset, call |-> call]

ArchiveIterNext ==
    /\ kind = "archive"
    /\ it.active
    /\ ~it.ended
    /\ IF it.src = "entries"
       THEN LET n == ArchiveIterStep(tar, it.pos, it.done, it.front,
                                     accounts_db_fields)
            IN  /\ it' = [it EXCEPT !.pos = n.pos, !.done = n.done,
                                    !.front = n.front, !.ended = ~n.has]
                /\ out' = IF n.has THEN Append(out, Tagged(n.item, iterCalls))
                          ELSE out
                /\ visited' = visited \o [k \in 1..(n.pos - it.pos) |-> it.pos + k]
       ELSE /\ it' = [it EXCEPT !.ended = TRUE]
            /\ UNCHANGED <<out, visited>>
    /\ UNCHANGED <<kind, tar, dir, manifestIdx, openResult, accounts_db_fields,
                   entries, iterCalls>>
    /\ UNCHANGED <<sqlVars, parVars, extVars>>

\* The consumer drops the iterator (at the end, or before).
IterDrop ==
    /\ kind \in {"archive", "unpacked"}
    /\ it.active
    /\ it' = NoIter
    /\ UNCHANGED <<kind, tar, dir, manifestIdx, openResult, accounts_db_fields,
                   entries, iterCalls, out, visited>>
    /\ UNCHANGED <<sqlVars, parVars, extVars>>

(***************************************************************************)
(* UnpackedSnapshotLoader.                                                 *)
(***************************************************************************)
\* A search that looks at the first entry of the listing only.
FindSnapshotFile_FirstOnly(listing) ==
    IF Len(listing) > 0 /\ U64FromStr(listing[1]) # None THEN 1 ELSE 0

\* snapshot_files.find(|entry| u64::from_str(name).is_ok()): the place of the
\* first entry of the listing whose name parses, 0 when there is none.
FindSnapshotFile(listing) ==
    IF \E i \in 1..Len(listing) : U64FromStr(listing[i]) # None
    THEN CHOOSE i \in 1..Len(listing) :
            /\ U64FromStr(listing[i]) # None
            /\ \A j \in 1..(i - 1) : U64FromStr(listing[j]) = None
    ELSE 0

\* What open_inner touches on the file system, in order.
ReadStatusCache == <<"status_cache">>
ReadListing == <<"status_cache", "snapshots">>
ReadManifest == <<"status_cache", "snapshots", "manifest">>

\* An open_inner that looks for the manifest first and for the status cache
\* only when it is about to read it.
UnpackedOpenInner_ManifestFirst(d, m) ==
    IF ~d.snapshotsReadable
    THEN [res |-> "IOError", fields |-> NoFields, reads |-> <<"snapshots">>]
    ELSE IF FindSnapshotFile(d.snapshots) = 0
    THEN [res |-> "NoSnapshotManifest", fields |-> NoFields,
          reads |-> <<"snapshots">>]
    ELSE IF ~d.statusCache
    THEN [res |-> "NoStatusCache", fields |-> NoFields,
          reads |-> <<"snapshots", "status_cache">>]
    ELSE IF ~d.manifestReadable
    THEN [res |-> "IOError", fields |-> NoFields, reads |-> ReadManifest]
    ELSE IF ~DeserializeOk(m)
    THEN [res |-> "BincodeError", fields |-> NoFields, reads |-> ReadManifest]
    ELSE [res |-> "Ok", fields |-> DeserializeFields(m), reads |-> ReadManifest]

UnpackedOpenInner(d, m) ==
    IF ~d.statusCache
    THEN [res |-> "NoStatusCache", fields |-> NoFields, reads |-> ReadStatusCache]
    ELSE IF ~d.snapshotsReadable
    THEN [res |-> "IOError", fields |-> NoFields, reads |-> ReadListing]
    ELSE IF FindSnapshotFile(d.snapshots) = 0
    THEN [res |-> "NoSnapshotManifest", fields |-> NoFields, reads |-> ReadListing]
    ELSE IF ~d.manifestReadable
    THEN [res |-> "IOError", fields |-> NoFields, reads |-> ReadManifest]
    ELSE IF ~DeserializeOk(m)
    THEN [res |-> "BincodeError", fields |-> NoFields, reads |-> ReadManifest]
    ELSE [res |-> "Ok", fields |-> DeserializeFields(m), reads |-> ReadManifest]

UnpackedOpen ==
    /\ kind = "unpacked"
    /\ openResult = "none"
    /\ LET r == UnpackedOpenInner(dir, manifestIdx)
       IN  /\ openResult' = r.res
           /\ accounts_db_fields' = r.fields
           /\ visited' = r.reads
    /\ UNCHANGED <<kind, tar, dir, manifestIdx, entries, it, iterCalls, out>>
    /\ UNCHANGED <<sqlVars, parVars, extVars>>

\* The call of iter(): iter_streams() runs at once; a read_dir error becomes
\* the single item of once(..).
UnpackedIter ==
    /\ kind = "unpacked"
    /\ openResult = "Ok"
    /\ ~it.active
    /\ iterCalls < MaxIterCalls
    /\ it' = [active |-> TRUE,
              src |-> IF dir.accountsReadable THEN "listing" ELSE "err",
              pos |-> 0, done |-> FALSE, front |-> NoHandles, ended |-> FALSE]
    /\ iterCalls' = iterCalls + 1
    /\ UNCHANGED <<kind, tar, dir, manifestIdx, openResult, accounts_db_fields,
                   entries, out, visited>>
    /\ UNCHANGED <<sqlVars, parVars, extVars>>

\* itertools flatten_ok applied to an Ok item whose value is itself a
\* Result<AppendVec>: the value is iterated with Result's IntoIterator, which
\* yields the AppendVec of an Ok and nothing of an Err.
FlattenOk(r) == IF r.ok THEN <<r>> ELSE <<>>

\* One next() of once(iter_streams()).flatten_ok().flatten_ok() over the
\* listing of accounts/ (in read_dir order), from pos on.
RECURSIVE UnpackedNextItem(_, _, _)
UnpackedNextItem(files, pos, db) ==
    IF pos >= Len(files)
    THEN [has |-> FALSE, item |-> ErrItem("", 0), pos |-> Len(files)]
    ELSE LET i == pos + 1
             p == parse_append_vec_name(files[i].name)
         IN  IF ~p.some
             THEN UnpackedNextItem(files, i, db)
             ELSE LET f == FlattenOk(open_append_vec(db, p.slot, p.id, files[i], i))
                  IN  IF Len(f) = 0
                      THEN UnpackedNextItem(files, i, db)
                      ELSE [has |-> TRUE, item |-> f[1], pos |-> i]

\* One next() of iter(): the next handle of the AppendVec in hand, or the
\* AppendVecs that follow up to the first one that holds a record.
RECURSIVE UnpackedIterStep(_, _, _, _)
UnpackedIterStep(files, pos, front, db) ==
    IF Len(front.rest) > 0
    THEN [has |-> TRUE,
          item |-> StoredAccountMetaHandleNew(front.cur, Head(front.rest)),
          pos |-> pos, front |-> [front EXCEPT !.rest = Tail(front.rest)]]
    ELSE LET n == UnpackedNextItem(files, pos, db)
         IN  IF ~n.has
             THEN [has |-> FALSE, item |-> ErrHandle(ErrItem("", 0)),
                   pos |-> n.pos, front |-> NoHandles]
             ELSE UnpackedIterStep(files, n.pos,
                      [cur |-> n.item,
                       rest |-> append_vec_iter(n.item.len, files[n.item.src].recs)],
                      db)

UnpackedIterNext ==
    /\ kind = "unpacked"
    /\ it.active
    /\ ~it.ended
    /\ IF it.src = "err" /\ ~it.done
       THEN /\ it' = [it EXCEPT !.done = TRUE]
            /\ out' = Append(out, Tagged(ErrHandle(ErrItem("IOError", 0)),
                                         iterCalls))
       ELSE IF it.src = "listing"
       THEN LET n == UnpackedIterStep(dir.accounts, it.pos, it.front,
                                      accounts_db_fields)
            IN  /\ it' = [it EXCEPT !.pos = n.pos, !.front = n.front,
                                    !.ended = ~n.has]
                /\ out' = IF n.has THEN Append(out, Tagged(n.item, iterCalls))
                          ELSE out
       ELSE /\ it' = [it EXCEPT !.ended = TRUE]
            /\ out' = out
    /\ UNCHANGED <<kind, tar, dir, manifestIdx, openResult, accounts_db_fields,
                   entries, iterCalls, visited>>
    /\ UNCHANGED <<sqlVars, parVars, extVars>>

(***************************************************************************)
(* Initial states.                                                         *)
(***************************************************************************)
InitLoader ==
    /\ kind \in {"archive", "unpacked"}
    /\ manifestIdx \in 0..Len(ManifestPool)
    /\ IF kind = "archive"
       THEN /\ tar \in SeqsUpTo(EntryPool, MaxEntries)
            /\ dir = EmptyDir
       ELSE /\ tar = <<>>
            /\ dir \in {d \in DirPool :
                          d.statusCache => StatusCacheName \in Range(d.snapshots)}
    /\ openResult = "none"
    /\ accounts_db_fields = NoFields
    /\ entries = NoEntries
    /\ it = NoIter
    /\ iterCalls = 0
    /\ out = <<>>
    /\ visited = <<>>
    \* the other components are not running
    /\ spc = "idle"
    /\ fsTarget = "absent"
    /\ fsTemp = "absent"
    /\ guardPath = FALSE
    /\ dbOpen = FALSE
    /\ queryOnly = FALSE
    /\ ingested = 0
    /\ sqlInput = <<>>
    /\ sqlNext = 0
    /\ sqlHistory = <<>>
    /\ targetAtStart = "absent"
    /\ exporter = "none"
    /\ num_threads = 0
    /\ parInput = <<>>
    /\ parNext = 0
    /\ ppc = "idle"
    /\ held = 0
    /\ chan = <<>>
    /\ txAlive = FALSE
    /\ wstate = <<>>
    /\ wcur = <<>>
    /\ accepted = {}
    /\ received = <<>>
    /\ parResult = "none"
    /\ avLen = 0
    /\ avRecs = <<>>
    /\ avpc = "idle"
    /\ offsets = <<>>
    /\ offset = 0
    /\ handles = <<>>
    /\ eqTar = <<>>
    /\ eqManifest = 0
    /\ eqpc = "idle"
    /\ eqDir = EmptyDir
    /\ eqArchive = NoRun
    /\ eqUnpacked = NoRun
    /\ ingTokens = FALSE
    /\ ingVecs = <<>>
    /\ ingOrder = <<>>
    /\ ingpc = "idle"
    /\ ingAv = 0
    /\ ingRec = 0
    /\ tables = EmptyDb
    /\ progress = ZeroProgress
    /\ ingLog = <<>>
    /\ dumpInput = <<>>
    /\ dumppc = "idle"
    /\ dumpNext = 0
    /\ tarOut = <<>>
    /\ dumpLog = <<>>
    /\ counter = 0
    /\ pending = <<>>
    /\ positions = <<>>
    /\ pbState = "idle"

NextLoader ==
    \/ ArchiveOpen
    \/ ArchiveIter
    \/ ArchiveIterNext
    \/ UnpackedOpen
    \/ UnpackedIter
    \/ UnpackedIterNext
    \/ IterDrop

SpecLoader == InitLoader /\ [][NextLoader]_vars

(***************************************************************************)
(* Claims about the loaders.                                               *)
(***************************************************************************)
IsManifestEntry(e) == e.kind = "ok" /\ is_snapshot_manifest_file(e.path)

IsAppendVecEntry(e) == e.kind = "ok" /\ is_appendvec_file(e.path)

AppendVecBeforeManifest(t, i) ==
    /\ IsAppendVecEntry(t[i])
    /\ \A j \in 1..(i - 1) : ~IsManifestEntry(t[j])

\* C1: when an entry classified as an AppendVec comes before the first entry
\* classified as a manifest, ArchiveSnapshotLoader::open never returns a
\* loader, and it fails with UnexpectedAppendVec when the scan reaches that
\* entry, that is when every entry before it could be read (an unreadable
\* entry ends the scan with its I/O error).  A manifest later in the stream
\* changes nothing.
C1_AppendVecBeforeManifestFails ==
    (kind = "archive" /\ openResult # "none") =>
        \A i \in 1..Len(tar) :
            AppendVecBeforeManifest(tar, i) =>
                /\ openResult # "Ok"
                /\ ~entries.some
                /\ (\A j \in 1..(i - 1) : tar[j].kind = "ok")
                        => openResult = "UnexpectedAppendVec"

C1_Witness ==
    /\ kind = "archive"
    /\ openResult = "UnexpectedAppendVec"
    /\ \E i, j \in 1..Len(tar) :
          i < j /\ AppendVecBeforeManifest(tar, i) /\ IsManifestEntry(tar[j])

\* The name of the file or tar entry an item came from.
SourceName(src) ==
    IF kind = "archive" THEN file_name(tar[src].path) ELSE dir.accounts[src].name

SourceSize(src) ==
    IF kind = "archive" THEN tar[src].size ELSE dir.accounts[src].size

\* An AppendVec comes from a file or entry whose name parses to its (slot,
\* id), the manifest map has a StorageEntry with that id under that slot, and
\* the AppendVec has the accounts_current_len of that entry (the first one
\* with the id).
BuiltFromManifest(av) ==
    LET p == parse_append_vec_name(SourceName(av.src))
        known == KnownVecs(accounts_db_fields, av.slot)
    IN  /\ p.some /\ p.slot = av.slot /\ p.id = av.id
        /\ \E k \in 1..Len(known) :
              /\ known[k].id = av.id
              /\ \A j \in 1..(k - 1) : known[j].id # av.id
              /\ av.len = known[k].accounts_current_len

\* What iter_streams of the open loader yields from a place of its source on.
StreamFrom(pos) ==
    IF kind = "archive"
    THEN ArchiveNextItem(tar, pos, accounts_db_fields)
    ELSE UnpackedNextItem(dir.accounts, pos, accounts_db_fields)

SourceLen == IF kind = "archive" THEN Len(tar) ELSE Len(dir.accounts)

\* C8: every AppendVec an iterator yields as Ok (the AppendVec of every
\* record handle of iter(), and every AppendVec iter_streams hands to it,
\* also one that holds no record) is built from its StorageEntry in the
\* manifest.
C8_YieldedAppendVecInManifest ==
    /\ \A n \in 1..Len(out) : out[n].ok => BuiltFromManifest(out[n])
    /\ openResult = "Ok" =>
          \A pos \in 0..SourceLen :
              (StreamFrom(pos).has /\ StreamFrom(pos).item.ok)
                  => BuiltFromManifest(StreamFrom(pos).item)

C8_Witness ==
    \E n \in 1..Len(out) :
        /\ out[n].ok
        /\ out[n].len < SourceSize(out[n].src)
        /\ Len(KnownVecs(accounts_db_fields, out[n].slot)) > 1

\* The offsets of the handles yielded from the entry at place i, in the
\* order of their yielding.
RECURSIVE YieldedOffsets(_, _)
YieldedOffsets(i, n) ==
    IF n = 0 THEN <<>>
    ELSE IF out[n].src = i /\ out[n].ok
    THEN Append(YieldedOffsets(i, n - 1), out[n].offset)
    ELSE YieldedOffsets(i, n - 1)

\* The record offsets of the AppendVec of entry i that the iterator has let
\* go of: all of them, or, for the AppendVec in hand, those not held back.
ReleasedOffsets(i, av) ==
    LET offs == append_vec_iter(av.len, tar[i].recs)
    IN  IF i = it.pos
        THEN SubSeq(offs, 1, Len(offs) - Len(it.front.rest))
        ELSE offs

\* C12: the archive iterator yields in tar order: every item comes from an
\* entry after the manifest, each item from the same entry as the item before
\* (then at a higher offset) or from a later one, and of the entries the
\* iterator has passed none is left out: an AppendVec that could be built
\* has yielded its records, one that could not has yielded its error.
C12_ArchiveOrderIsTarOrder ==
    kind = "archive" =>
        /\ \A n \in 1..Len(out) : out[n].src > ScanFrom(tar, 1).pos
        /\ \A m, n \in 1..Len(out) :
              m < n => \/ out[m].src < out[n].src
                       \/ /\ out[m].src = out[n].src
                          /\ out[m].offset < out[n].offset
        /\ (it.active /\ it.src = "entries") =>
              \A i \in (ScanFrom(tar, 1).pos + 1)..it.pos :
                  ( /\ tar[i].kind = "ok"
                    /\ parse_append_vec_name(file_name(tar[i].path)).some ) =>
                      LET p == parse_append_vec_name(file_name(tar[i].path))
                          av == process_entry(accounts_db_fields, tar[i],
                                              p.slot, p.id, i)
                      IN  IF av.ok
                          THEN YieldedOffsets(i, Len(out)) = ReleasedOffsets(i, av)
                          ELSE \E n \in 1..Len(out) :
                                  out[n].src = i /\ ~out[n].ok

C12_Witness ==
    /\ kind = "archive"
    /\ \E m, n \in 1..Len(out) :
          /\ m < n /\ out[m].ok /\ out[n].ok
          /\ out[m].slot = 8 /\ out[m].id = 1
          /\ out[n].slot = 7 /\ out[n].id = 1
    /\ \E m, n \in 1..Len(out) :
          /\ m < n /\ out[m].ok /\ out[n].ok
          /\ out[m].src = out[n].src

\* C19: UnpackedSnapshotLoader::open fails with NoStatusCache whenever
\* snapshots/status_cache is not an existing regular file, whatever else the
\* directory holds, and it has then touched neither the listing of snapshots/
\* nor a manifest.
C19_NoStatusCacheFirst ==
    (kind = "unpacked" /\ openResult # "none" /\ ~dir.statusCache) =>
        /\ openResult = "NoStatusCache"
        /\ visited = ReadStatusCache
        /\ accounts_db_fields = NoFields

C19_Witness ==
    /\ kind = "unpacked"
    /\ openResult = "NoStatusCache"
    /\ FindSnapshotFile(dir.snapshots) # 0
    /\ StatusCacheName \in Range(dir.snapshots)
    /\ dir.snapshotsReadable /\ dir.manifestReadable /\ manifestIdx # 0
    /\ Len(dir.accounts) > 0

\* C20: open fails with NoSnapshotManifest exactly when no manifest can be
\* located.  Archive: the tar stream was read to its end without an error and
\* none of its entries is classified as a manifest or as an AppendVec.
\* Directory: the status cache is there, snapshots/ could be listed, and no
\* name of the listing parses as a u64.
C20_NoSnapshotManifestExactly ==
    /\ (kind = "archive" /\ openResult # "none") =>
          ( openResult = "NoSnapshotManifest"
            <=> \A i \in 1..Len(tar) :
                   /\ tar[i].kind = "ok"
                   /\ ~IsManifestEntry(tar[i])
                   /\ ~IsAppendVecEntry(tar[i]) )
    /\ (kind = "unpacked" /\ openResult # "none") =>
          ( openResult = "NoSnapshotManifest"
            <=> /\ dir.statusCache
                /\ dir.snapshotsReadable
                /\ \A i \in 1..Len(dir.snapshots) :
                       U64FromStr(dir.snapshots[i]) = None )

C20_Witness ==
    /\ kind = "unpacked"
    /\ openResult = "NoSnapshotManifest"
    /\ dir.snapshots = <<StatusCacheName>>
    /\ Len(dir.accounts) > 0

C20_WitnessArchive ==
    /\ kind = "archive"
    /\ openResult = "NoSnapshotManifest"
    /\ Len(tar) = 3

\* StorageEntry for (slot, id) in the manifest.
UnknownAppendVec(i) ==
    LET p == parse_append_vec_name(SourceName(i))
    IN  /\ p.some
        /\ FindKnownVec(KnownVecs(accounts_db_fields, p.slot), p.id) = 0

SourceReadable(i) == kind = "archive" => tar[i].kind = "ok"

\* The iterator alive now has advanced past place i (the archive iterator
\* starts after the entries open() consumed).
PassedByIterator(i) ==
    /\ i <= it.pos
    /\ kind = "archive" => i > ScanFrom(tar, 1).pos

\* C9: every accounts/<slot>.<id> file (unpacked) or tar entry named
\* <slot>.<id> (archive) without a StorageEntry that an iterator has passed
\* made the iterator yield the error UnexpectedAppendVec for it, and never an
\* AppendVec.
C9_UnknownAppendVecYieldsError ==
    (it.active /\ it.src \in {"entries", "listing"}) =>
        \A i \in 1..it.pos :
            ( /\ PassedByIterator(i)
              /\ SourceReadable(i)
              /\ UnknownAppendVec(i) ) =>
                /\ \E n \in 1..Len(out) :
                      /\ out[n].src = i
                      /\ out[n].call = iterCalls
                      /\ ~out[n].ok
                      /\ out[n].err = "UnexpectedAppendVec"
                /\ \A n \in 1..Len(out) : out[n].src = i => ~out[n].ok

\* The archive half of C9 alone.
C9_ArchiveOnly == kind = "archive" => C9_UnknownAppendVecYieldsError

(***************************************************************************)
(* The archive loader's state machine.                                     *)
(***************************************************************************)
\* Opening (0), ManifestFound (1), Iterating (2), Exhausted (3).
ArchivePhase ==
    IF openResult # "Ok" THEN 0
    ELSE IF entries.some THEN 1
    ELSE IF it.active /\ it.src = "entries" /\ ~it.ended THEN 2
    ELSE 3

C10_State ==
    kind = "archive" =>
        /\ \A n \in 1..Len(out) : out[n].ok => openResult = "Ok"
        /\ NoDuplicates(visited)
        /\ \A n \in 1..Len(out) : out[n].call = 1
        /\ (iterCalls > 1 /\ it.active) => it.src = "none"

\* C10: the archive loader only moves forward through Opening, ManifestFound,
\* Iterating, Exhausted; no AppendVec is yielded unless the manifest has been
\* deserialized; no tar entry is visited twice, over open() and every iter()
\* call; and an iter() call after the first yields nothing.
C10_ArchiveOneShot ==
    /\ [] C10_State
    /\ [][ArchivePhase' >= ArchivePhase]_vars

C10_Witness ==
    /\ kind = "archive"
    /\ iterCalls = 2
    /\ it.active /\ it.ended
    /\ \E n \in 1..Len(out) : out[n].ok
    /\ Len(visited) < Len(tar)
    /\ \E i \in 1..Len(tar) : i \notin Range(visited) /\ IsAppendVecEntry(tar[i])

(***************************************************************************)
(* The SQLite export: _main's overwrite check, SqliteIndexer::new,         *)
(* SqliteIndexer::insert_all, TempFileGuard.                               *)
(***************************************************************************)
\* What the AppendVec iterator and the sink do with each item: the item is
\* ingested ("ok"), the iterator yields Err ("iter_err"), on_append_vec
\* returns Err ("sink_err"), or acc.access().unwrap() panics ("panic").
SqlItemKinds == {"ok", "iter_err", "sink_err", "panic"}

\* A check that lets an existing database through.
RefusesOverwrite_Never(target) == FALSE

\* assert!(!db_path.exists(), "Refusing to overwrite ...")
RefusesOverwrite(target) == target # "absent"

\* _main of main.rs: the export starts; an existing target makes the assert
\* panic before anything is created.
SqliteStart ==
    /\ exporter = "main"
    /\ spc = "start"
    /\ spc' = IF RefusesOverwrite(fsTarget) THEN "refused" ELSE "checked"
    /\ UNCHANGED <<fsTarget, fsTemp, guardPath, dbOpen, queryOnly, ingested,
                   sqlInput, sqlNext, sqlHistory, targetAtStart, exporter>>
    /\ UNCHANGED <<loaderVars, parVars, extVars>>

\* std::fs::remove_file(path): the file is gone, or the call fails and the
\* path holds what it held (removeOk: the file system lets the file go; a
\* directory at the path is never removed).
RemoveFile(temp, removeOk) ==
    IF removeOk /\ temp # "dir" THEN "absent" ELSE temp

\* Drop for TempFileGuard: remove_file(path) when path is Some; an error is
\* logged and nothing else happens.
GuardDrop(path, temp, removeOk) ==
    IF path THEN RemoveFile(temp, removeOk) ELSE temp

\* Connection::open(path) creates the file when the path is free and opens
\* the file that is there otherwise; it fails on a directory (openOk: it does
\* not fail for another reason).  What the path holds afterwards.
OpenCreates(temp, openOk) == openOk /\ temp # "dir"

AfterOpen(temp, openOk) == IF OpenCreates(temp, openOk) THEN "db" ELSE temp

\* SqliteIndexer::new: remove_file on the temp path (its result is
\* ignored), the guard is created, then create_db opens the database in the
\* temp file and sets it up.  Connection::open may fail, the pragmas or
\* CREATE TABLEs may fail, or the indexer is returned.  On the error returns
\* the connection and the guard are dropped.
SqliteNew ==
    /\ exporter = "indexer"
    /\ spc = "checked"
    /\ \E staleRemoved \in BOOLEAN, openOk \in BOOLEAN, setupOk \in BOOLEAN,
          removeOk \in BOOLEAN :
          LET cleared == RemoveFile(fsTemp, staleRemoved)
              opened == AfterOpen(cleared, openOk)
          IN  IF OpenCreates(cleared, openOk) /\ setupOk
              THEN /\ spc' = "ready"
                   /\ fsTemp' = opened
                   /\ guardPath' = TRUE
                   /\ dbOpen' = TRUE
              ELSE /\ spc' = "new_failed"
                   /\ fsTemp' = GuardDrop(TRUE, opened, removeOk)
                   /\ guardPath' = FALSE
                   /\ dbOpen' = FALSE
    /\ UNCHANGED <<fsTarget, queryOnly, ingested, sqlInput, sqlNext,
                   sqlHistory, targetAtStart, exporter>>
    /\ UNCHANGED <<loaderVars, parVars, extVars>>

\* The caller of SqliteIndexer::new and insert_all is not among the sources:
\* as the export is described, it refuses to overwrite a target that exists.
IndexerStart ==
    /\ exporter = "indexer"
    /\ spc = "start"
    /\ spc' = IF RefusesOverwrite(fsTarget) THEN "refused" ELSE "checked"
    /\ UNCHANGED <<fsTarget, fsTemp, guardPath, dbOpen, queryOnly, ingested,
                   sqlInput, sqlNext, sqlHistory, targetAtStart, exporter>>
    /\ UNCHANGED <<loaderVars, parVars, extVars>>

\* The loop of insert_all over the iterator, from item i on: how it ends and
\* how many AppendVecs were ingested.
\* A loop that passes over the items that fail.
RECURSIVE IngestLoop_SkipErrors(_, _, _)
IngestLoop_SkipErrors(input, i, n) ==
    IF i > Len(input) THEN [res |-> "Ok", next |-> Len(input), n |-> n]
    ELSE IF input[i] = "ok" THEN IngestLoop_SkipErrors(input, i + 1, n + 1)
    ELSE IngestLoop_SkipErrors(input, i + 1, n)

RECURSIVE IngestLoop(_, _, _)
IngestLoop(input, i, n) ==
    IF i > Len(input) THEN [res |-> "Ok", next |-> Len(input), n |-> n]
    ELSE IF input[i] = "ok" THEN IngestLoop(input, i + 1, n + 1)
    ELSE [res |-> input[i], next |-> i, n |-> n]

\* A rename that copies the file.
Rename_Copy(temp, target) == [temp |-> temp, target |-> temp]

\* std::fs::rename(temp, target), when it succeeds: the file moves and
\* replaces what the target path held.
Rename(temp, target) == [temp |-> "absent", target |-> temp]

\* TempFileGuard::promote: self.path.take() comes first, whatever rename
\* returns.
PathAfterPromote(path) == FALSE

Steps(k, name) == [i \in 1..k |-> name]

\* SqliteIndexer::insert_all, to its return (or unwinding) and the drop of
\* self.  pragmaOk and renameOk are what the database and the file system
\* answer.
SqliteInsertAll ==
    /\ spc = "ready"
    /\ \E pragmaOk \in BOOLEAN, renameOk \in BOOLEAN, removeOk \in BOOLEAN :
          LET loop == IngestLoop(sqlInput, 1, 0)
              ingest == Steps(loop.n, "ingest")
          IN  /\ sqlNext' = loop.next
              /\ ingested' = loop.n
              /\ dbOpen' = FALSE
              /\ IF loop.res # "Ok"
                 THEN \* return Err or unwind: self is dropped
                      /\ spc' = IF loop.res = "panic" THEN "done_panic"
                                ELSE "done_err"
                      /\ queryOnly' = FALSE
                      /\ guardPath' = FALSE
                      /\ fsTemp' = GuardDrop(guardPath, fsTemp, removeOk)
                      /\ fsTarget' = fsTarget
                      /\ sqlHistory' = ingest \o <<"close", "drop_guard">>
                 ELSE IF ~pragmaOk
                 THEN /\ spc' = "done_err"
                      /\ queryOnly' = FALSE
                      /\ guardPath' = FALSE
                      /\ fsTemp' = GuardDrop(guardPath, fsTemp, removeOk)
                      /\ fsTarget' = fsTarget
                      /\ sqlHistory' = ingest \o <<"close", "drop_guard">>
                 ELSE IF ~renameOk
                 THEN /\ spc' = "done_err"
                      /\ queryOnly' = TRUE
                      /\ guardPath' = FALSE
                      /\ fsTemp' = GuardDrop(PathAfterPromote(guardPath), fsTemp,
                                             removeOk)
                      /\ fsTarget' = fsTarget
                      /\ sqlHistory' = ingest \o <<"query_only", "rename_failed",
                                                   "close", "drop_guard">>
                 ELSE LET moved == Rename(fsTemp, fsTarget)
                      IN  /\ spc' = "done_ok"
                          /\ queryOnly' = TRUE
                          /\ guardPath' = FALSE
                          /\ fsTemp' = GuardDrop(PathAfterPromote(guardPath),
                                                 moved.temp, removeOk)
                          /\ fsTarget' = moved.target
                          /\ sqlHistory' = ingest \o <<"query_only", "rename",
                                                       "close", "drop_guard">>
    /\ UNCHANGED <<sqlInput, targetAtStart, exporter>>
    /\ UNCHANGED <<loaderVars, parVars, extVars>>

\* _main of main.rs, lines 64-193: the export it carries out itself.
\* remove_file on the temp path (its result is ignored), the guard is
\* created, the connection is opened (Connection::open may fail) and set up
\* (the pragmas, CREATE TABLEs and prepares may fail), the loop runs over
\* loader.iter(), then drop(db) closes the connection and promote() renames.
\* On `?` and on a panic the locals are dropped: the connection, then the
\* guard.  query_only is never set.
MainExport ==
    /\ exporter = "main"
    /\ spc = "checked"
    /\ \E staleRemoved \in BOOLEAN, openOk \in BOOLEAN, setupOk \in BOOLEAN,
          renameOk \in BOOLEAN, removeOk \in BOOLEAN :
          LET cleared == RemoveFile(fsTemp, staleRemoved)
              opened == AfterOpen(cleared, openOk)
              loop == IngestLoop(sqlInput, 1, 0)
              ingest == Steps(loop.n, "ingest")
          IN  /\ dbOpen' = FALSE
              /\ queryOnly' = FALSE
              /\ guardPath' = FALSE
              /\ IF ~(OpenCreates(cleared, openOk) /\ setupOk)
                 THEN /\ spc' = "new_failed"
                      /\ fsTemp' = GuardDrop(TRUE, opened, removeOk)
                      /\ UNCHANGED <<fsTarget, sqlNext, ingested, sqlHistory>>
                 ELSE /\ sqlNext' = loop.next
                      /\ ingested' = loop.n
                      /\ IF loop.res # "Ok"
                         THEN /\ spc' = IF loop.res = "panic" THEN "done_panic"
                                        ELSE "done_err"
                              /\ fsTemp' = GuardDrop(TRUE, opened, removeOk)
                              /\ fsTarget' = fsTarget
                              /\ sqlHistory' = ingest \o <<"close", "drop_guard">>
                         ELSE IF ~renameOk
                         THEN /\ spc' = "done_err"
                              /\ fsTemp' = GuardDrop(PathAfterPromote(TRUE), opened,
                                                     removeOk)
                              /\ fsTarget' = fsTarget
                              /\ sqlHistory' = ingest \o <<"close", "rename_failed",
                                                           "drop_guard">>
                         ELSE LET moved == Rename(opened, fsTarget)
                              IN  /\ spc' = "done_ok"
                                  /\ fsTemp' = GuardDrop(PathAfterPromote(TRUE),
                                                         moved.temp, removeOk)
                                  /\ fsTarget' = moved.target
                                  /\ sqlHistory' = ingest \o <<"close", "rename",
                                                               "drop_guard">>
    /\ UNCHANGED <<sqlInput, targetAtStart, exporter>>
    /\ UNCHANGED <<loaderVars, parVars, extVars>>

InitSqlite ==
    /\ spc = "start"
    /\ fsTarget \in {"absent", "old"}
    /\ targetAtStart = fsTarget
    /\ exporter \in {"main", "indexer"}
    /\ fsTemp \in {"absent", "stale", "dir"}
    /\ guardPath = FALSE
    /\ dbOpen = FALSE
    /\ queryOnly = FALSE
    /\ ingested = 0
    /\ sqlInput \in SeqsUpTo(SqlItemKinds, MaxItems)
    /\ sqlNext = 0
    /\ sqlHistory = <<>>
    \* the other components are not running
    /\ kind = "none"
    /\ tar = <<>>
    /\ dir = EmptyDir
    /\ manifestIdx = 0
    /\ openResult = "none"
    /\ accounts_db_fields = NoFields
    /\ entries = NoEntries
    /\ it = NoIter
    /\ iterCalls = 0
    /\ out = <<>>
    /\ visited = <<>>
    /\ num_threads = 0
    /\ parInput = <<>>
    /\ parNext = 0
    /\ ppc = "idle"
    /\ held = 0
    /\ chan = <<>>
    /\ txAlive = FALSE
    /\ wstate = <<>>
    /\ wcur = <<>>
    /\ accepted = {}
    /\ received = <<>>
    /\ parResult = "none"
    /\ avLen = 0
    /\ avRecs = <<>>
    /\ avpc = "idle"
    /\ offsets = <<>>
    /\ offset = 0
    /\ handles = <<>>
    /\ eqTar = <<>>
    /\ eqManifest = 0
    /\ eqpc = "idle"
    /\ eqDir = EmptyDir
    /\ eqArchive = NoRun
    /\ eqUnpacked = NoRun
    /\ ingTokens = FALSE
    /\ ingVecs = <<>>
    /\ ingOrder = <<>>
    /\ ingpc = "idle"
    /\ ingAv = 0
    /\ ingRec = 0
    /\ tables = EmptyDb
    /\ progress = ZeroProgress
    /\ ingLog = <<>>
    /\ dumpInput = <<>>
    /\ dumppc = "idle"
    /\ dumpNext = 0
    /\ tarOut = <<>>
    /\ dumpLog = <<>>
    /\ counter = 0
    /\ pending = <<>>
    /\ positions = <<>>
    /\ pbState = "idle"

NextSqlite ==
    \/ SqliteStart
    \/ MainExport
    \/ IndexerStart
    \/ SqliteNew
    \/ SqliteInsertAll

SpecSqlite == InitSqlite /\ [][NextSqlite]_vars

SqlAborted == spc \in {"new_failed", "done_err", "done_panic"}

\* C2: after insert_all has returned Ok the target database exists and the
\* temp file does not; after an export that failed or panicked, in
\* SqliteIndexer::new or in insert_all, the target path does not exist.
C2_SqliteAtomicity ==
    /\ spc = "done_ok" => (fsTarget = "db" /\ fsTemp = "absent")
    /\ SqlAborted => fsTarget = "absent"

C2_Witness ==
    /\ spc = "done_ok"
    /\ fsTarget = "db"
    /\ ingested = MaxItems

\* C3: when the indexer ends without having promoted the temp database,
\* also after a failed rename in promote, the temp file is gone once the
\* indexer and its guard are dropped.
C3_TempRemovedUnlessPromoted ==
    SqlAborted => fsTemp = "absent"

\* C4: an export started while the target path exists is refused: it never
\* gets past the check, nothing is ingested, no temp file is touched and the
\* file at the target path stays the one that was there.
C4_RefusesOverwrite ==
    targetAtStart = "old" =>
        /\ spc \in {"start", "refused"}
        /\ fsTarget = "old"
        /\ ingested = 0
        /\ sqlHistory = <<>>
        /\ ~dbOpen

C4_Witness ==
    /\ targetAtStart = "old"
    /\ spc = "refused"
    /\ Len(sqlInput) > 0

(***************************************************************************)
(* par_iter_append_vecs.                                                   *)
(***************************************************************************)
\* What the iterator yields at each place, and what the sink does with it:
\* Ok(AppendVec) that on_append_vec accepts ("ok"), Ok(AppendVec) on which
\* on_append_vec returns Err ("sink_err"), or Err ("iter_err").  An AppendVec
\* is named by its place in the input.
ParItemKinds == {"ok", "sink_err", "iter_err"}

\* The worker threads spawned so far.
Workers == DOMAIN wstate

\* A worker whose wg clone and rx clone have been dropped: at the end of the
\* thread, or by the unwinding of its panic.
WorkerGone(w) == wstate[w] \in {"exited", "panicked"}

\* The queue once the driver is at pc and the workers are in ws: the channel
\* lives as long as one of its endpoints does (tx and rx of the driver until
\* the function returns, the rx clone of every running thread); with the
\* last endpoint the queued AppendVecs are dropped.
ChannelAfter(queue, pc, ws) ==
    IF pc = "done" /\ \A w \in DOMAIN ws : ws[w] \in {"exited", "panicked"}
    THEN <<>> ELSE queue

\* The spawn part: the consumers are created (new_consumer()? may fail and
\* return Err before any thread exists), then one thread per consumer is
\* spawned with clones of rx and wg.
ParStart ==
    /\ ppc = "start"
    /\ \E factoryOk \in BOOLEAN :
          IF factoryOk
          THEN /\ ppc' = "loop"
               /\ txAlive' = TRUE
               /\ wstate' = [w \in 1..num_threads |-> "recv"]
               /\ wcur' = [w \in 1..num_threads |-> 0]
               /\ parResult' = parResult
          ELSE /\ num_threads > 0
               /\ ppc' = "done"
               /\ txAlive' = FALSE
               /\ parResult' = "Err"
               /\ UNCHANGED <<wstate, wcur>>
    /\ UNCHANGED <<num_threads, parInput, parNext, held, chan, accepted, received>>
    /\ UNCHANGED <<loaderVars, sqlVars, extVars>>

\* for append_vec in iterator { let append_vec = append_vec?; ...: the next
\* item is pulled.  At the end of the iterator tx is dropped and the driver
\* goes to wg.wait(); on Err the function returns at once, dropping tx and
\* its rx.
ParPull ==
    /\ ppc = "loop"
    /\ IF parNext >= Len(parInput)
       THEN /\ ppc' = "wait"
            /\ txAlive' = FALSE
            /\ UNCHANGED <<parNext, held, parResult, chan>>
       ELSE IF parInput[parNext + 1] = "iter_err"
       THEN /\ ppc' = "done"
            /\ txAlive' = FALSE
            /\ parResult' = "Err"
            /\ parNext' = parNext + 1
            /\ held' = held
            /\ chan' = ChannelAfter(chan, "done", wstate)
       ELSE /\ ppc' = "send"
            /\ held' = parNext + 1
            /\ parNext' = parNext + 1
            /\ UNCHANGED <<txAlive, parResult, chan>>
    /\ UNCHANGED <<num_threads, parInput, wstate, wcur, accepted, received>>
    /\ UNCHANGED <<loaderVars, sqlVars, extVars>>

\* A channel without a capacity.
ChannelHasRoom_Unbounded(queue, cap) == TRUE

\* crossbeam::channel::bounded(num_threads): send blocks while the queue is
\* full.
ChannelHasRoom(queue, cap) == Len(queue) < cap

\* tx.send(append_vec): the driver's own rx is alive until the function
\* returns, so the send never fails; it waits for room.
ParSend ==
    /\ ppc = "send"
    /\ ChannelHasRoom(chan, num_threads)
    /\ chan' = Append(chan, held)
    /\ held' = 0
    /\ ppc' = "loop"
    /\ UNCHANGED <<num_threads, parInput, parNext, txAlive, wstate, wcur,
                   accepted, received, parResult>>
    /\ UNCHANGED <<loaderVars, sqlVars, extVars>>

\* wg.wait(); Ok(()): the wait ends when every clone of wg is dropped, and
\* the result does not depend on how the workers ended.
JoinResult(ws) == "Ok"

\* The return drops the driver's rx, the last endpoint of the channel.
ParJoin ==
    /\ ppc = "wait"
    /\ \A w \in Workers : WorkerGone(w)
    /\ ppc' = "done"
    /\ parResult' = JoinResult(wstate)
    /\ chan' = ChannelAfter(chan, "done", wstate)
    /\ UNCHANGED <<num_threads, parInput, parNext, held, txAlive, wstate,
                   wcur, accepted, received>>
    /\ UNCHANGED <<loaderVars, sqlVars, extVars>>

\* A recv that leaves the item in the channel.
WorkerRecv_Peek(w) ==
    /\ wstate[w] = "recv"
    /\ Len(chan) > 0
    /\ wstate' = [wstate EXCEPT ![w] = "busy"]
    /\ wcur' = [wcur EXCEPT ![w] = Head(chan)]
    /\ chan' = chan
    /\ received' = Append(received, Head(chan))
    /\ UNCHANGED <<num_threads, parInput, parNext, ppc, held, txAlive, accepted,
                   parResult>>
    /\ UNCHANGED <<loaderVars, sqlVars, extVars>>

\* rx.recv() returns Ok(item).
WorkerRecv(w) ==
    /\ wstate[w] = "recv"
    /\ Len(chan) > 0
    /\ wstate' = [wstate EXCEPT ![w] = "busy"]
    /\ wcur' = [wcur EXCEPT ![w] = Head(chan)]
    /\ chan' = Tail(chan)
    /\ received' = Append(received, Head(chan))
    /\ UNCHANGED <<num_threads, parInput, parNext, ppc, held, txAlive, accepted,
                   parResult>>
    /\ UNCHANGED <<loaderVars, sqlVars, extVars>>

\* rx.recv() returns Err: the channel is empty and tx is dropped.  The loop
\* ends and the thread drops its wg.
WorkerDisconnected(w) ==
    /\ wstate[w] = "recv"
    /\ Len(chan) = 0
    /\ ~txAlive
    /\ wstate' = [wstate EXCEPT ![w] = "exited"]
    /\ UNCHANGED <<num_threads, parInput, parNext, ppc, held, chan, txAlive,
                   wcur, accepted, received, parResult>>
    /\ UNCHANGED <<loaderVars, sqlVars, extVars>>

\* consumer.on_append_vec(item).expect("insert failed") returns, or panics
\* the thread on Err; the unwinding drops the thread's rx and wg.
WorkerFinish(w) ==
    /\ wstate[w] = "busy"
    /\ IF parInput[wcur[w]] = "ok"
       THEN /\ wstate' = [wstate EXCEPT ![w] = "recv"]
            /\ accepted' = accepted \cup {wcur[w]}
       ELSE /\ wstate' = [wstate EXCEPT ![w] = "panicked"]
            /\ accepted' = accepted
    /\ wcur' = [wcur EXCEPT ![w] = 0]
    /\ chan' = ChannelAfter(chan, ppc, wstate')
    /\ UNCHANGED <<num_threads, parInput, parNext, ppc, held, txAlive,
                   received, parResult>>
    /\ UNCHANGED <<loaderVars, sqlVars, extVars>>

InitPar ==
    /\ num_threads \in 0..MaxThreads
    /\ parInput \in SeqsUpTo(ParItemKinds, MaxItems)
    /\ parNext = 0
    /\ ppc = "start"
    /\ held = 0
    /\ chan = <<>>
    /\ txAlive = FALSE
    /\ wstate = <<>>
    /\ wcur = <<>>
    /\ accepted = {}
    /\ received = <<>>
    /\ parResult = "none"
    \* the other components are not running
    /\ kind = "none"
    /\ tar = <<>>
    /\ dir = EmptyDir
    /\ manifestIdx = 0
    /\ openResult = "none"
    /\ accounts_db_fields = NoFields
    /\ entries = NoEntries
    /\ it = NoIter
    /\ iterCalls = 0
    /\ out = <<>>
    /\ visited = <<>>
    /\ spc = "idle"
    /\ fsTarget = "absent"
    /\ fsTemp = "absent"
    /\ guardPath = FALSE
    /\ dbOpen = FALSE
    /\ queryOnly = FALSE
    /\ ingested = 0
    /\ sqlInput = <<>>
    /\ sqlNext = 0
    /\ sqlHistory = <<>>
    /\ targetAtStart = "absent"
    /\ exporter = "none"
    /\ avLen = 0
    /\ avRecs = <<>>
    /\ avpc = "idle"
    /\ offsets = <<>>
    /\ offset = 0
    /\ handles = <<>>
    /\ eqTar = <<>>
    /\ eqManifest = 0
    /\ eqpc = "idle"
    /\ eqDir = EmptyDir
    /\ eqArchive = NoRun
    /\ eqUnpacked = NoRun
    /\ ingTokens = FALSE
    /\ ingVecs = <<>>
    /\ ingOrder = <<>>
    /\ ingpc = "idle"
    /\ ingAv = 0
    /\ ingRec = 0
    /\ tables = EmptyDb
    /\ progress = ZeroProgress
    /\ ingLog = <<>>
    /\ dumpInput = <<>>
    /\ dumppc = "idle"
    /\ dumpNext = 0
    /\ tarOut = <<>>
    /\ dumpLog = <<>>
    /\ counter = 0
    /\ pending = <<>>
    /\ positions = <<>>
    /\ pbState = "idle"

NextPar ==
    \/ ParStart
    \/ ParPull
    \/ ParSend
    \/ ParJoin
    \/ \E w \in Workers : WorkerRecv(w)
    \/ \E w \in Workers : WorkerDisconnected(w)
    \/ \E w \in Workers : WorkerFinish(w)

SpecPar == InitPar /\ [][NextPar]_vars

\* The AppendVecs the iterator yielded as Ok so far.
YieldedOk == {i \in 1..parNext : parInput[i] # "iter_err"}

Busy == {w \in Workers : wstate[w] = "busy"}

\* C5: the driver returns Ok only if every AppendVec the iterator yielded
\* went through a worker's on_append_vec and that call returned Ok; a worker
\* that panicked on a sink error makes the driver report failure.
C5_OkOnlyIfAllAccepted ==
    (ppc = "done" /\ parResult = "Ok") =>
        /\ \A i \in YieldedOk : i \in accepted
        /\ \A w \in Workers : wstate[w] # "panicked"

\* C6: when the driver has returned, with Ok or with the iterator's Err, no
\* AppendVec is queued in the channel and no on_append_vec call is in
\* progress.
C6_WorkersDrainedAtReturn ==
    ppc = "done" =>
        /\ Len(chan) = 0
        /\ Busy = {}

\* AppendVec buffers alive: the one the driver holds awaiting send, those
\* queued, those in an on_append_vec call.
LiveBuffers == (IF held # 0 THEN 1 ELSE 0) + Len(chan) + Cardinality(Busy)

ParRunning == ppc \in {"loop", "send", "wait"}

\* C7 as stated: at every point of par_iter_append_vecs at most num_threads
\* AppendVec buffers are alive (taken here for num_threads >= 1 only).
C7_LiveBuffersAtMostNumThreads ==
    (ParRunning /\ num_threads >= 1) => LiveBuffers <= num_threads

\* C7 amended: the channel queues at most num_threads AppendVecs, and at
\* most 2 * num_threads + 1 buffers are alive: num_threads queued, one per
\* worker in on_append_vec, one held by the driver awaiting send.
C7_LiveBuffersBound ==
    /\ Len(chan) <= num_threads
    /\ LiveBuffers <= 2 * num_threads + 1

C7_Witness ==
    /\ ppc = "send"
    /\ num_threads > 0
    /\ Len(chan) = num_threads
    /\ LiveBuffers = 2 * num_threads + 1

(***************************************************************************)
(* append_vec_iter, one turn of its loop at a time.                        *)
(*                                                                         *)
(* An AppendVec buffer is its length avLen (the accounts_current_len it    *)
(* was built with) and its contents avRecs, the data_len of the records    *)
(* written from offset 0 on.  The length is independent of what was        *)
(* written: the buffer may end inside a record, or go on after the last    *)
(* one.                                                                    *)
(***************************************************************************)
MaxBufLen == 300
MaxRecs == 2

\* data_len values found in the buffer; the last one exceeds every length.
AvDataLens == {0, 1, 8, 1000}

AvStart ==
    /\ avpc = "idle"
    /\ avpc' = "loop"
    /\ offsets' = <<>>
    /\ offset' = 0
    /\ UNCHANGED <<avLen, avRecs, handles>>
    /\ UNCHANGED <<loaderVars, sqlVars, parVars, eqVars, ingVars, dumpVars, progVars>>

\* One turn of the loop of append_vec_iter.
AvLoop ==
    /\ avpc = "loop"
    /\ LET r == get_account(avLen, avRecs, offset)
       IN  IF ~r.some
           THEN /\ avpc' = "iter"
                /\ UNCHANGED <<offsets, offset>>
           ELSE /\ offsets' = Append(offsets, PushedOffset(offset, r.next_offset))
                /\ offset' = NextLoopOffset(offset, r.next_offset)
                /\ avpc' = avpc
    /\ UNCHANGED <<avLen, avRecs, handles>>
    /\ UNCHANGED <<loaderVars, sqlVars, parVars, eqVars, ingVars, dumpVars, progVars>>

\* One next() of the iterator append_vec_iter returns: the handle for the
\* next collected offset, or None.
AvNext ==
    /\ avpc = "iter"
    /\ IF Len(handles) < Len(offsets)
       THEN /\ handles' = Append(handles, offsets[Len(handles) + 1])
            /\ avpc' = avpc
       ELSE /\ avpc' = "done"
            /\ handles' = handles
    /\ UNCHANGED <<avLen, avRecs, offsets, offset>>
    /\ UNCHANGED <<loaderVars, sqlVars, parVars, eqVars, ingVars, dumpVars, progVars>>

InitAppendVec ==
    /\ avLen \in 0..MaxBufLen
    /\ avRecs \in SeqsUpTo(AvDataLens, MaxRecs)
    /\ avpc = "idle"
    /\ offsets = <<>>
    /\ offset = 0
    /\ handles = <<>>
    \* the other components are not running
    /\ kind = "none"
    /\ tar = <<>>
    /\ dir = EmptyDir
    /\ manifestIdx = 0
    /\ openResult = "none"
    /\ accounts_db_fields = NoFields
    /\ entries = NoEntries
    /\ it = NoIter
    /\ iterCalls = 0
    /\ out = <<>>
    /\ visited = <<>>
    /\ spc = "idle"
    /\ fsTarget = "absent"
    /\ fsTemp = "absent"
    /\ guardPath = FALSE
    /\ dbOpen = FALSE
    /\ queryOnly = FALSE
    /\ ingested = 0
    /\ sqlInput = <<>>
    /\ sqlNext = 0
    /\ sqlHistory = <<>>
    /\ targetAtStart = "absent"
    /\ exporter = "none"
    /\ num_threads = 0
    /\ parInput = <<>>
    /\ parNext = 0
    /\ ppc = "idle"
    /\ held = 0
    /\ chan = <<>>
    /\ txAlive = FALSE
    /\ wstate = <<>>
    /\ wcur = <<>>
    /\ accepted = {}
    /\ received = <<>>
    /\ parResult = "none"
    /\ eqTar = <<>>
    /\ eqManifest = 0
    /\ eqpc = "idle"
    /\ eqDir = EmptyDir
    /\ eqArchive = NoRun
    /\ eqUnpacked = NoRun
    /\ ingTokens = FALSE
    /\ ingVecs = <<>>
    /\ ingOrder = <<>>
    /\ ingpc = "idle"
    /\ ingAv = 0
    /\ ingRec = 0
    /\ tables = EmptyDb
    /\ progress = ZeroProgress
    /\ ingLog = <<>>
    /\ dumpInput = <<>>
    /\ dumppc = "idle"
    /\ dumpNext = 0
    /\ tarOut = <<>>
    /\ dumpLog = <<>>
    /\ counter = 0
    /\ pending = <<>>
    /\ positions = <<>>
    /\ pbState = "idle"

NextAppendVec ==
    \/ AvStart
    \/ AvLoop
    \/ AvNext

\* append_vec_iter is a sequential function: it keeps running until it ends.
SpecAppendVec ==
    InitAppendVec /\ [][NextAppendVec]_vars /\ WF_vars(NextAppendVec)

\* C11: the handles append_vec_iter yields are in file order: the first one is
\* at offset 0, each following one is at the next_offset get_account returns
\* for the one before, and the offsets are strictly increasing.
C11_HandlesInFileOrder ==
    /\ Len(handles) > 0 => handles[1] = 0
    /\ \A k \in 1..(Len(handles) - 1) :
          /\ get_account(avLen, avRecs, handles[k]).some
          /\ handles[k + 1] = get_account(avLen, avRecs, handles[k]).next_offset
          /\ handles[k] < handles[k + 1]

C11_Witness ==
    /\ avpc = "done"
    /\ Len(handles) = 2
    /\ handles[2] = 144
    /\ avLen > 288

\* The aligned footprint of the record at an offset: from its start to the
\* start of the next one.
Footprint(off) == get_account(avLen, avRecs, off).next_offset - off

RECURSIVE TotalFootprint(_)
TotalFootprint(offs) ==
    IF Len(offs) = 0 THEN 0
    ELSE Footprint(offs[Len(offs)]) + TotalFootprint(SubSeq(offs, 1, Len(offs) - 1))

\* Whether a full record (StoredMeta, AccountMeta, Hash, data_len bytes) lies
\* within the buffer at an offset.
FullRecordFits(off) ==
    off + StoredMetaSize + AccountMetaSize + HashSize + DataLenAt(avRecs, off)
        <= avLen

AvLoopEnded == avpc \in {"iter", "done"}

\* C13 as stated: iteration ends without error, the records yielded have a
\* total aligned footprint of at most L, and it stops at the first offset
\* where a full record does not fit.
C13_AlignedFootprintWithinLength ==
    AvLoopEnded =>
        /\ TotalFootprint(offsets) <= avLen
        /\ \A k \in 1..Len(offsets) : FullRecordFits(offsets[k])
        /\ ~FullRecordFits(offset)

C13_State ==
    /\ Len(offsets) * (StoredMetaSize + AccountMetaSize + HashSize) <= avLen
    /\ \A k \in 1..Len(handles) : get_account(avLen, avRecs, handles[k]).some
    /\ AvLoopEnded =>
          /\ TotalFootprint(offsets) <= u64_align(avLen)
          /\ \A k \in 1..Len(offsets) :
                /\ FullRecordFits(offsets[k])
                /\ get_account(avLen, avRecs, offsets[k]).data_end <= avLen
          /\ ~FullRecordFits(offset)
    /\ avpc = "done" => Len(handles) = Len(offsets)

\* C13 (amended): for every length L and all contents, iteration terminates
\* and reports no error; every record yielded lies within the first L bytes
\* with its headers and its data_len bytes, the total aligned footprint is at
\* most L rounded up to a multiple of 8 (only the padding of the last record
\* may lie beyond L), and iteration stops at the first offset where a full
\* record does not fit.
C13_IterationTerminates ==
    /\ [] C13_State
    /\ <>(avpc = "done")

C13_Witness ==
    /\ avpc = "done"
    /\ Len(handles) = 2
    /\ offset > avLen
    /\ avRecs = <<8, 1>>

(***************************************************************************)
(* One snapshot read twice: as an archive by ArchiveSnapshotLoader, and,   *)
(* after extracting the archive, as a directory by UnpackedSnapshotLoader. *)
(***************************************************************************)
MaxEqEntries == 4

\* The version file at the top of a snapshot.
VersionName == <<"v", "e", "r", "s", "i", "o", "n">>

\* Entries of a snapshot archive.  accounts/ is the entry of the directory
\* itself.
EqEntryPool ==
    { TarEntry(<<SnapshotsName, StatusCacheName>>, 1, <<>>),
      TarEntry(<<SnapshotsName, <<"7">>, <<"7">>>>, 1, <<>>),
      TarEntry(<<AccountsName>>, 0, <<>>),
      TarEntry(<<AccountsName, <<"7", ".", "1">>>>, 280, <<8, 0>>),
      TarEntry(<<AccountsName, <<"7", ".", "2">>>>, 136, <<0>>),
      TarEntry(<<AccountsName, <<"7", ".", "3">>>>, 3, <<>>),
      TarEntry(<<AccountsName, <<"8", ".", "1">>>>, 280, <<>>),
      TarEntry(<<VersionName>>, 1, <<>>) }

\* The names in a top-level directory after extraction: the distinct second
\* path components of the entries under it.
NamesUnder(t, top) ==
    {t[n].path[2] : n \in {k \in 1..Len(t) : /\ Len(t[k].path) >= 2
                                             /\ t[k].path[1] = top}}

\* The files of accounts/ after extraction.
AccountFilesOf(t) ==
    {DirFile(t[n].path[2], t[n].size, t[n].recs) :
        n \in {k \in 1..Len(t) : /\ Len(t[k].path) = 2
                                 /\ t[k].path[1] = AccountsName}}

\* read_dir(): the entries of a directory in an order the file system
\* chooses, each once.
ReadDirOrders(S) ==
    {s \in [1..Cardinality(S) -> S] : \A i, j \in DOMAIN s : i # j => s[i] # s[j]}

\* The directory an archive (of distinct paths) extracts to, for one order
\* of the listing of snapshots/ and one of accounts/.  A directory is there
\* when the archive has an entry for it or under it.
Extract(t, snapshots, accounts) ==
    LET k == FindSnapshotFile(snapshots)
    IN  [ statusCache |->
              \E i \in 1..Len(t) : t[i].path = <<SnapshotsName, StatusCacheName>>,
          snapshotsReadable |-> \E i \in 1..Len(t) : t[i].path[1] = SnapshotsName,
          snapshots |-> snapshots,
          manifestReadable |->
              /\ k # 0
              /\ \E i \in 1..Len(t) :
                    t[i].path = <<SnapshotsName, snapshots[k], snapshots[k]>>,
          accountsReadable |-> \E i \in 1..Len(t) : t[i].path[1] = AccountsName,
          accounts |-> accounts ]

\* Every item of a full traversal of ArchiveSnapshotLoader::iter().
RECURSIVE ArchiveItems(_, _, _, _, _)
ArchiveItems(t, pos, done, front, db) ==
    LET n == ArchiveIterStep(t, pos, done, front, db)
    IN  IF ~n.has THEN <<>>
        ELSE <<n.item>> \o ArchiveItems(t, n.pos, n.done, n.front, db)

\* ArchiveSnapshotLoader::open followed by a full traversal of iter().
ArchiveRun(t, m) ==
    LET r == ArchiveOpenInner(t, m)
    IN  [res |-> r.res,
         items |-> IF r.res = "Ok"
                   THEN ArchiveItems(t, r.pos, FALSE, NoHandles, r.fields)
                   ELSE <<>>]

\* Every item of a full traversal of UnpackedSnapshotLoader::iter().
RECURSIVE UnpackedItems(_, _, _, _)
UnpackedItems(files, pos, front, db) ==
    LET n == UnpackedIterStep(files, pos, front, db)
    IN  IF ~n.has THEN <<>>
        ELSE <<n.item>> \o UnpackedItems(files, n.pos, n.front, db)

\* UnpackedSnapshotLoader::open followed by a full traversal of iter().
UnpackedRun(d, m) ==
    LET r == UnpackedOpenInner(d, m)
    IN  [res |-> r.res,
         items |-> IF r.res # "Ok" THEN <<>>
                   ELSE IF ~d.accountsReadable
                   THEN <<ErrHandle(ErrItem("IOError", 0))>>
                   ELSE UnpackedItems(d.accounts, 0, NoHandles, r.fields)]

\* The archive is extracted; the file system fixes the order in which each
\* directory will be listed.
EqStart ==
    /\ eqpc = "start"
    /\ \E snapshots \in ReadDirOrders(NamesUnder(eqTar, SnapshotsName)),
          accounts \in ReadDirOrders(AccountFilesOf(eqTar)) :
            eqDir' = Extract(eqTar, snapshots, accounts)
    /\ eqpc' = "extracted"
    /\ UNCHANGED <<eqTar, eqManifest, eqArchive, eqUnpacked>>
    /\ UNCHANGED <<loaderVars, sqlVars, parVars, avVars, ingVars, dumpVars, progVars>>

EqRunArchive ==
    /\ eqpc = "extracted"
    /\ eqArchive.res = "none"
    /\ eqArchive' = ArchiveRun(eqTar, eqManifest)
    /\ eqpc' = IF eqUnpacked.res # "none" THEN "done" ELSE eqpc
    /\ UNCHANGED <<eqTar, eqManifest, eqDir, eqUnpacked>>
    /\ UNCHANGED <<loaderVars, sqlVars, parVars, avVars, ingVars, dumpVars, progVars>>

EqRunUnpacked ==
    /\ eqpc = "extracted"
    /\ eqUnpacked.res = "none"
    /\ eqUnpacked' = UnpackedRun(eqDir, eqManifest)
    /\ eqpc' = IF eqArchive.res # "none" THEN "done" ELSE eqpc
    /\ UNCHANGED <<eqTar, eqManifest, eqDir, eqArchive>>
    /\ UNCHANGED <<loaderVars, sqlVars, parVars, avVars, ingVars, dumpVars, progVars>>

\* The archives: laid out as a snapshot (the status cache is there), every
\* AppendVec after a manifest, no path twice.
InitEquiv ==
    /\ eqTar \in {t \in SeqsUpTo(EqEntryPool, MaxEqEntries) :
                    /\ NoDuplicates(t)
                    /\ \E i \in 1..Len(t) :
                          t[i].path = <<SnapshotsName, StatusCacheName>>
                    /\ \A i \in 1..Len(t) :
                          is_appendvec_file(t[i].path) =>
                              \E j \in 1..(i - 1) :
                                  is_snapshot_manifest_file(t[j].path)}
    /\ eqManifest \in 0..Len(ManifestPool)
    /\ eqpc = "start"
    /\ eqDir = EmptyDir
    /\ eqArchive = NoRun
    /\ eqUnpacked = NoRun
    \* the other components are not running
    /\ kind = "none"
    /\ tar = <<>>
    /\ dir = EmptyDir
    /\ manifestIdx = 0
    /\ openResult = "none"
    /\ accounts_db_fields = NoFields
    /\ entries = NoEntries
    /\ it = NoIter
    /\ iterCalls = 0
    /\ out = <<>>
    /\ visited = <<>>
    /\ spc = "idle"
    /\ fsTarget = "absent"
    /\ fsTemp = "absent"
    /\ guardPath = FALSE
    /\ dbOpen = FALSE
    /\ queryOnly = FALSE
    /\ ingested = 0
    /\ sqlInput = <<>>
    /\ sqlNext = 0
    /\ sqlHistory = <<>>
    /\ targetAtStart = "absent"
    /\ exporter = "none"
    /\ num_threads = 0
    /\ parInput = <<>>
    /\ parNext = 0
    /\ ppc = "idle"
    /\ held = 0
    /\ chan = <<>>
    /\ txAlive = FALSE
    /\ wstate = <<>>
    /\ wcur = <<>>
    /\ accepted = {}
    /\ received = <<>>
    /\ parResult = "none"
    /\ avLen = 0
    /\ avRecs = <<>>
    /\ avpc = "idle"
    /\ offsets = <<>>
    /\ offset = 0
    /\ handles = <<>>
    /\ ingTokens = FALSE
    /\ ingVecs = <<>>
    /\ ingOrder = <<>>
    /\ ingpc = "idle"
    /\ ingAv = 0
    /\ ingRec = 0
    /\ tables = EmptyDb
    /\ progress = ZeroProgress
    /\ ingLog = <<>>
    /\ dumpInput = <<>>
    /\ dumppc = "idle"
    /\ dumpNext = 0
    /\ tarOut = <<>>
    /\ dumpLog = <<>>
    /\ counter = 0
    /\ pending = <<>>
    /\ positions = <<>>
    /\ pbState = "idle"

NextEquiv ==
    \/ EqStart
    \/ EqRunArchive
    \/ EqRunUnpacked

SpecEquiv == InitEquiv /\ [][NextEquiv]_vars

\* A run fails when open() fails or the iterator yields an error.
RunFailed(r) == r.res # "Ok" \/ \E n \in 1..Len(r.items) : ~r.items[n].ok

\* The accounts file an item of a run was read from.
ArchiveSource(item) == eqTar[item.src].path
UnpackedSource(item) == <<AccountsName, eqDir.accounts[item.src].name>>

\* How many times a run delivers the record at an offset of a file.  (The
\* fields of a record are a function of the file and the offset.)
ArchiveCount(path, off) ==
    Cardinality({n \in 1..Len(eqArchive.items) :
        /\ eqArchive.items[n].ok
        /\ eqArchive.items[n].offset = off
        /\ ArchiveSource(eqArchive.items[n]) = path})

UnpackedCount(path, off) ==
    Cardinality({n \in 1..Len(eqUnpacked.items) :
        /\ eqUnpacked.items[n].ok
        /\ eqUnpacked.items[n].offset = off
        /\ UnpackedSource(eqUnpacked.items[n]) = path})

EqPaths ==
    {eqTar[i].path : i \in 1..Len(eqTar)}
        \cup {<<AccountsName, eqDir.accounts[i].name>> : i \in 1..Len(eqDir.accounts)}

EqOffsets ==
    {eqArchive.items[n].offset : n \in 1..Len(eqArchive.items)}
        \cup {eqUnpacked.items[n].offset : n \in 1..Len(eqUnpacked.items)}

\* Both runs deliver the same records, as many times.
SameRecords ==
    \A path \in EqPaths : \A off \in EqOffsets :
        ArchiveCount(path, off) = UnpackedCount(path, off)

\* C14: the archive loader over an archive (manifest before all AppendVecs)
\* and the unpacked loader over the directory it extracts to fail on the same
\* inputs, and where they do not fail they deliver equal multisets of records.
C14_UnpackedArchiveEquivalence ==
    eqpc = "done" =>
        /\ RunFailed(eqArchive) <=> RunFailed(eqUnpacked)
        /\ (~RunFailed(eqArchive) /\ ~RunFailed(eqUnpacked)) => SameRecords

(***************************************************************************)
(* The SQLite Worker: on_append_vec, insert_account and the inserts it     *)
(* dispatches to (sqlite.rs).                                              *)
(*                                                                         *)
(* An account record carries pubkey, owner, lamports, executable,          *)
(* rent_epoch and its data.  The decoders of the SPL token and Metaplex    *)
(* libraries are not part of the program: the data of a record is given by *)
(* its length and by what those decoders return for it.                    *)
(***************************************************************************)
MaxVecs == 2

TokenProgram == "spl_token"
MetaplexProgram == "mpl_metadata"
SystemProgram == "system"

\* spl_token::state::{Account, Mint, Multisig}::LEN
AccountLEN == 165
MintLEN == 82
MultisigLEN == 355

\* data: len bytes; unpackOk and val: the result of the spl_token unpack that
\* matches len; m, n, signers: the fields of an unpacked Multisig; key: what
\* AccountKey::deserialize returns ("invalid": Err); bodyOk: whether
\* Metadata::deserialize succeeds; ext1: MetadataExt::deserialize ("err", or
\* the edition_nonce "null" / "some"); ext2: MetadataExtV1_2::deserialize
\* ("err", or the collection "null" / "some").
Data(len, unpackOk, val, m, n, signers, key, bodyOk, ext1, ext2) ==
    [ len |-> len, unpackOk |-> unpackOk, val |-> val, m |-> m, n |-> n,
      signers |-> signers, key |-> key, bodyOk |-> bodyOk, ext1 |-> ext1,
      ext2 |-> ext2 ]

PlainData(len) == Data(len, FALSE, 0, 0, 0, <<>>, "invalid", FALSE, "err", "err")

TokenData(len, unpackOk, val) ==
    Data(len, unpackOk, val, 0, 0, <<>>, "invalid", FALSE, "err", "err")

MultisigData(unpackOk, m, n, signers) ==
    Data(MultisigLEN, unpackOk, 0, m, n, signers, "invalid", FALSE, "err", "err")

MetaplexData(len, key, bodyOk, val, ext1, ext2) ==
    Data(len, FALSE, val, 0, 0, <<>>, key, bodyOk, ext1, ext2)

Account(pubkey, owner, lamports, data) ==
    [ pubkey |-> pubkey, owner |-> owner, lamports |-> lamports,
      executable |-> FALSE, rent_epoch |-> 0, data |-> data ]

\* The AppendVecs of a snapshot, each the sequence of its records.
IngVecPool ==
    { << Account("p1", SystemProgram, 1, PlainData(0)),
         Account("p2", TokenProgram, 1, TokenData(AccountLEN, TRUE, 1)) >>,
      << Account("p1", SystemProgram, 2, PlainData(3)) >>,
      << Account("p1", TokenProgram, 1, TokenData(AccountLEN, FALSE, 0)),
         Account("p2", TokenProgram, 1, TokenData(MintLEN, TRUE, 1)),
         Account("p1", TokenProgram, 1, TokenData(10, FALSE, 0)) >>,
      << Account("p1", TokenProgram, 1,
                 MultisigData(TRUE, 1, 3, <<"a", "b", "a">>)),
         Account("p2", TokenProgram, 1, TokenData(MintLEN, FALSE, 0)) >>,
      << Account("p1", MetaplexProgram, 1, PlainData(0)),
         Account("p2", MetaplexProgram, 1,
                 MetaplexData(1, "invalid", FALSE, 0, "err", "err")),
         Account("p1", MetaplexProgram, 1,
                 MetaplexData(9, "MetadataV1", TRUE, 1, "some", "some")),
         Account("p2", MetaplexProgram, 1,
                 MetaplexData(2, "EditionV1", FALSE, 0, "err", "err")) >>,
      << Account("p1", MetaplexProgram, 1,
                 MetaplexData(5, "MetadataV1", FALSE, 0, "err", "err")),
         Account("p2", SystemProgram, 1, PlainData(0)) >>,
      << Account("p1", TokenProgram, 1, MultisigData(TRUE, 1, 1, <<"a">>)),
         Account("p1", MetaplexProgram, 1,
                 MetaplexData(7, "MetadataV1", TRUE, 2, "err", "some")) >>,
      << Account("p2", MetaplexProgram, 1,
                 MetaplexData(8, "MetadataV1", TRUE, 3, "some", "err")),
         Account("p2", MetaplexProgram, 1,
                 MetaplexData(8, "MetadataV1", TRUE, 4, "null", "null")) >> }

\* The values of a row in the columns of a primary key.
KeyOf(row, cols) == [i \in 1..Len(cols) |-> row[cols[i]]]

\* An insert that keeps the row the table has under the key.
InsertOrReplace_KeepFirst(table, row, cols) ==
    IF \E r \in table : KeyOf(r, cols) = KeyOf(row, cols)
    THEN table
    ELSE table \cup {row}

\* INSERT OR REPLACE into a table with a primary key: the row replaces the
\* rows that have its key.
InsertOrReplace(table, row, cols) ==
    {r \in table : KeyOf(r, cols) # KeyOf(row, cols)} \cup {row}

PubkeyKey == <<"pubkey">>

MultisigKey == <<"pubkey", "signer">>

\* The statements of one insert_account call are numbered as they are handed
\* to SQLite.  There is no transaction around them and the database has no
\* rollback journal (journal_mode = off), so nothing a statement has written
\* is undone.  st.failAt is the number of the statement SQLite fails (0:
\* none): its Err is returned with `?`, the rows of the statements before it
\* stay, and its own row is in the table or not (st.leaves) according to how
\* far the statement got.  st.stmt counts the statements handed over,
\* st.failed tells that one has failed.
MaxStatements == 4

Execute(st, db) ==
    IF st.stmt + 1 = st.failAt
    THEN [st EXCEPT !.stmt = @ + 1, !.ok = FALSE, !.failed = TRUE,
                    !.db = IF st.leaves THEN db ELSE @]
    ELSE [st EXCEPT !.stmt = @ + 1, !.db = db]

insert_account_meta(st, account) ==
    Execute(st, [st.db EXCEPT !.account =
        InsertOrReplace(@,
            [ pubkey |-> account.pubkey, data_len |-> account.data.len,
              owner |-> account.owner, lamports |-> account.lamports,
              executable |-> account.executable,
              rent_epoch |-> account.rent_epoch ],
            PubkeyKey)])

insert_token_account(st, account) ==
    Execute(st, [st.db EXCEPT !.token_account =
        InsertOrReplace(@, [pubkey |-> account.pubkey, val |-> account.data.val],
                        PubkeyKey)])

insert_token_mint(st, account) ==
    Execute(st, [st.db EXCEPT !.token_mint =
        InsertOrReplace(@, [pubkey |-> account.pubkey, val |-> account.data.val],
                        PubkeyKey)])

\* One row per signer of signers[..n], inserted in turn, up to the first
\* statement that fails.
RECURSIVE InsertSigners(_, _, _)
InsertSigners(st, account, k) ==
    IF k = 0 THEN st
    ELSE LET before == InsertSigners(st, account, k - 1)
         IN  IF ~before.ok THEN before
             ELSE Execute(before, [before.db EXCEPT !.token_multisig =
                      InsertOrReplace(@,
                          [ pubkey |-> account.pubkey,
                            signer |-> account.data.signers[k],
                            m |-> account.data.m, n |-> account.data.n ],
                          MultisigKey)])

insert_token_multisig(st, account) == InsertSigners(st, account, account.data.n)

\* A dispatch that sends a Mint to the token_account table.
insert_token_MintAsAccount(st, account) ==
    LET data_len == account.data.len
        unpacked == account.data.unpackOk
        counted(s) ==
            IF s.ok THEN [s EXCEPT !.progress.token_accounts_counter = @ + 1]
            ELSE s
    IN  IF data_len = AccountLEN \/ data_len = MintLEN
        THEN counted(IF unpacked THEN insert_token_account(st, account) ELSE st)
        ELSE IF data_len = MultisigLEN
        THEN counted(IF unpacked THEN insert_token_multisig(st, account) ELSE st)
        ELSE st

\* counted: after the match, unless an insert has returned Err with `?`.
insert_token(st, account) ==
    LET data_len == account.data.len
        unpacked == account.data.unpackOk
        counted(s) ==
            IF s.ok THEN [s EXCEPT !.progress.token_accounts_counter = @ + 1]
            ELSE s
    IN  IF data_len = AccountLEN
        THEN counted(IF unpacked THEN insert_token_account(st, account) ELSE st)
        ELSE IF data_len = MintLEN
        THEN counted(IF unpacked THEN insert_token_mint(st, account) ELSE st)
        ELSE IF data_len = MultisigLEN
        THEN counted(IF unpacked THEN insert_token_multisig(st, account) ELSE st)
        ELSE st

\* An insert that decodes the V1.2 extension whatever the V1.1 decoding gave.
insert_token_metadata_metadata_AlwaysV1_2(st, account) ==
    Execute(st, [st.db EXCEPT !.token_metadata =
        Append(@,
            [ pubkey |-> account.pubkey, val |-> account.data.val,
              edition_nonce |->
                  IF account.data.ext1 = "err" THEN "null" ELSE account.data.ext1,
              collection |->
                  IF account.data.ext2 = "err"
                  THEN "null" ELSE account.data.ext2 ])])

\* The table has no primary key: INSERT OR REPLACE appends the row.
insert_token_metadata_metadata(st, account) ==
    Execute(st, [st.db EXCEPT !.token_metadata =
        Append(@,
            [ pubkey |-> account.pubkey, val |-> account.data.val,
              edition_nonce |->
                  IF account.data.ext1 = "err" THEN "null" ELSE account.data.ext1,
              collection |->
                  IF account.data.ext1 = "err" \/ account.data.ext2 = "err"
                  THEN "null" ELSE account.data.ext2 ])])

insert_token_metadata(st, account) ==
    IF account.data.len = 0
    THEN st
    ELSE IF account.data.key = "invalid"
    THEN st
    ELSE IF account.data.key = "MetadataV1"
    THEN IF ~account.data.bodyOk
         THEN [st EXCEPT !.ok = FALSE]
         ELSE LET r == insert_token_metadata_metadata(st, account)
              IN  IF ~r.ok THEN r
                  ELSE [r EXCEPT !.progress.metaplex_accounts_counter = @ + 1]
    ELSE st

\* Worker::insert_account, with `?` after each of the three inserts.
insert_account(st, account, failAt, leaves) ==
    LET s0 == [st EXCEPT !.stmt = 0, !.failAt = failAt, !.leaves = leaves,
                         !.failed = FALSE]
        s1 == insert_account_meta(s0, account)
        s2 == IF s1.ok /\ account.owner = TokenProgram
              THEN insert_token(s1, account) ELSE s1
        s3 == IF s2.ok /\ account.owner = MetaplexProgram
              THEN insert_token_metadata(s2, account) ELSE s2
    IN  IF ~s3.ok THEN s3
        ELSE [s3 EXCEPT !.progress.accounts_counter = @ + 1]

\* The state insert_account works on: the tables and the counters.
IngestState(db, counters) ==
    [ok |-> TRUE, db |-> db, progress |-> counters, stmt |-> 0, failAt |-> 0,
     leaves |-> FALSE, failed |-> FALSE]

\* The delivery orders of n AppendVecs.
Orders(n) ==
    {o \in [1..n -> 1..n] : \A i, j \in 1..n : i # j => o[i] # o[j]}

IngestStart ==
    /\ ingpc = "start"
    /\ ingpc' = IF Len(ingVecs) = 0 THEN "done_ok" ELSE "run"
    /\ UNCHANGED <<ingTokens, ingVecs, ingOrder, ingAv, ingRec, tables, progress,
                   ingLog>>
    /\ UNCHANGED <<loaderVars, sqlVars, parVars, avVars, eqVars, dumpVars, progVars>>

\* One turn of the loops of insert_all and on_append_vec: insert_account on
\* the next record of the current AppendVec.  The log keeps the record, the
\* result, whether SQLite executed every statement it was handed (dbOk) and
\* how many it was handed.
IngestRecord ==
    /\ ingpc = "run"
    /\ LET vec == ingVecs[ingOrder[ingAv + 1]]
           account == vec[ingRec + 1]
           lastOfVec == ingRec + 1 = Len(vec)
       IN  \E failAt \in 0..MaxStatements, leaves \in BOOLEAN :
             LET r == insert_account(IngestState(tables, progress), account,
                                     failAt, leaves)
             IN  /\ tables' = r.db
                 /\ progress' = r.progress
                 /\ ingLog' = Append(ingLog,
                        [account |-> account, ok |-> r.ok, dbOk |-> ~r.failed,
                         stmt |-> r.stmt])
                 /\ IF ~r.ok
                    THEN /\ ingpc' = "done_err"
                         /\ UNCHANGED <<ingAv, ingRec>>
                    ELSE /\ ingRec' = IF lastOfVec THEN 0 ELSE ingRec + 1
                         /\ ingAv' = IF lastOfVec THEN ingAv + 1 ELSE ingAv
                         /\ ingpc' = IF lastOfVec /\ ingAv + 1 = Len(ingVecs)
                                     THEN "done_ok" ELSE ingpc
    /\ UNCHANGED <<ingTokens, ingVecs, ingOrder>>
    /\ UNCHANGED <<loaderVars, sqlVars, parVars, avVars, eqVars, dumpVars, progVars>>

InitIngest ==
    /\ ingTokens \in BOOLEAN
    /\ ingVecs \in {v \in SeqsUpTo(IngVecPool, MaxVecs) : NoDuplicates(v)}
    /\ ingOrder \in Orders(Len(ingVecs))
    /\ ingpc = "start"
    /\ ingAv = 0
    /\ ingRec = 0
    /\ tables = EmptyDb
    /\ progress = ZeroProgress
    /\ ingLog = <<>>
\* the other components are not running
    /\ kind = "none"
    /\ tar = <<>>
    /\ dir = EmptyDir
    /\ manifestIdx = 0
    /\ openResult = "none"
    /\ accounts_db_fields = NoFields
    /\ entries = NoEntries
    /\ it = NoIter
    /\ iterCalls = 0
    /\ out = <<>>
    /\ visited = <<>>
    /\ spc = "idle"
    /\ fsTarget = "absent"
    /\ fsTemp = "absent"
    /\ guardPath = FALSE
    /\ dbOpen = FALSE
    /\ queryOnly = FALSE
    /\ ingested = 0
    /\ sqlInput = <<>>
    /\ sqlNext = 0
    /\ sqlHistory = <<>>
    /\ targetAtStart = "absent"
    /\ exporter = "none"
    /\ num_threads = 0
    /\ parInput = <<>>
    /\ parNext = 0
    /\ ppc = "idle"
    /\ held = 0
    /\ chan = <<>>
    /\ txAlive = FALSE
    /\ wstate = <<>>
    /\ wcur = <<>>
    /\ accepted = {}
    /\ received = <<>>
    /\ parResult = "none"
    /\ avLen = 0
    /\ avRecs = <<>>
    /\ avpc = "idle"
    /\ offsets = <<>>
    /\ offset = 0
    /\ handles = <<>>
    /\ eqTar = <<>>
    /\ eqManifest = 0
    /\ eqpc = "idle"
    /\ eqDir = EmptyDir
    /\ eqArchive = NoRun
    /\ eqUnpacked = NoRun
    /\ dumpInput = <<>>
    /\ dumppc = "idle"
    /\ dumpNext = 0
    /\ tarOut = <<>>
    /\ dumpLog = <<>>
    /\ counter = 0
    /\ pending = <<>>
    /\ positions = <<>>
    /\ pbState = "idle"

NextIngest ==
    \/ IngestStart
    \/ IngestRecord

SpecIngest == InitIngest /\ [][NextIngest]_vars

\* The records of the first n AppendVecs of a delivery order, one after the
\* other.
RECURSIVE RecordsOf(_, _, _)
RecordsOf(vecs, order, n) ==
    IF n = 0 THEN <<>>
    ELSE RecordsOf(vecs, order, n - 1) \o vecs[order[n]]

\* insert_account over a sequence of records, up to the first Err.
RECURSIVE IngestAll(_, _)
IngestAll(st, recs) ==
    IF Len(recs) = 0 \/ ~st.ok THEN st
    ELSE IngestAll(insert_account(st, Head(recs), 0, FALSE), Tail(recs))

FreshIngest == IngestState(EmptyDb, ZeroProgress)

\* The contents of the tables as sets of rows.
TablesAsSets(d) ==
    [ account |-> d.account, token_mint |-> d.token_mint,
      token_account |-> d.token_account, token_multisig |-> d.token_multisig,
      token_metadata |-> Range(d.token_metadata) ]

\* C15: an ingest that has completed leaves the same table contents (as sets
\* of rows) as an ingest of the same AppendVecs into a fresh database in any
\* other delivery order.
C15_IngestOrderIndependent ==
    ingpc = "done_ok" =>
        \A o \in Orders(Len(ingVecs)) :
            LET other == IngestAll(FreshIngest, RecordsOf(ingVecs, o, Len(ingVecs)))
            IN  other.ok => TablesAsSets(other.db) = TablesAsSets(tables)

\* C17: without --tokens an ingest populates the account table only.
C17_TokenTablesEmptyWithoutFlag ==
    ~ingTokens =>
        /\ tables.token_mint = {}
        /\ tables.token_account = {}
        /\ tables.token_multisig = {}
        /\ tables.token_metadata = <<>>

\* An account-level decode failure: an SPL token account of a known size that
\* does not unpack, or a Metaplex account whose key or whose MetadataV1 body
\* does not deserialize.
DecodeFailure(account) ==
    \/ /\ account.owner = TokenProgram
       /\ account.data.len \in {AccountLEN, MintLEN, MultisigLEN}
       /\ ~account.data.unpackOk
    \/ /\ account.owner = MetaplexProgram
       /\ account.data.len > 0
       /\ \/ account.data.key = "invalid"
          \/ account.data.key = "MetadataV1" /\ ~account.data.bodyOk

\* C18: insert_account returns Ok for every record with a decode failure
\* (the database taking its statements), so that no such record ends the
\* ingest.
C18_DecodeFailureNotFatal ==
    \A k \in 1..Len(ingLog) :
        (DecodeFailure(ingLog[k].account) /\ ingLog[k].dbOk) =>
            /\ ingLog[k].ok
            /\ k = Len(ingLog) => ingpc # "done_err"

(***************************************************************************)
(* ProgramDumper (programs.rs).  Account data is a sequence of bytes.      *)
(***************************************************************************)
MaxDumpRecs == 2

\* The writes of one entry that a writer may refuse.
MaxWrites == 4

BpfLoader == "bpf_loader"
BpfLoaderDeprecated == "bpf_loader_deprecated"
BpfLoaderUpgradeable == "bpf_loader_upgradeable"

Zeros(n) == [i \in 1..n |-> 0]

\* A little-endian u32 read at the start of the data (None: fewer than four
\* bytes are there).
ReadU32(data) ==
    IF Len(data) < 4 THEN None
    ELSE data[1] + 256 * data[2] + 65536 * data[3] + 16777216 * data[4]

\* bincode of Option<Pubkey> at byte k: its tag byte and, for Some, 32 bytes.
OptionPubkeyOk(data, k) ==
    /\ Len(data) >= k
    /\ \/ data[k] = 0
       \/ data[k] = 1 /\ Len(data) >= k + 32

\* bincode::options().with_fixint_encoding().allow_trailing_bytes()
\* .deserialize::<UpgradeableLoaderState>(data): the variant, or "Err".
DeserializeLoaderState(data) ==
    LET tag == ReadU32(data)
    IN  IF tag = 0 THEN "Uninitialized"
        ELSE IF tag = 1
        THEN IF OptionPubkeyOk(data, 5) THEN "Buffer" ELSE "Err"
        ELSE IF tag = 2
        THEN IF Len(data) >= 36 THEN "Program" ELSE "Err"
        ELSE IF tag = 3
        THEN IF Len(data) >= 12 /\ OptionPubkeyOk(data, 13)
             THEN "ProgramData" ELSE "Err"
        ELSE "Err"

\* The bytes of the data that come before the program.
ProgramDataHeaderLen == 45

\* The header of a ProgramData account: tag 3, the slot, the authority.
ProgramDataSome == <<3, 0, 0, 0>> \o Zeros(8) \o <<1>> \o Zeros(32)
ProgramDataNone == <<3, 0, 0, 0>> \o Zeros(8) \o <<0>>

\* The block of the tar format, and the buffer of io::copy.
BlockSize == 512

ChunkSize == 8192

Program(pubkey, owner, executable, data) ==
    [pubkey |-> pubkey, owner |-> owner, executable |-> executable, data |-> data]

DumpRecordPool ==
    { Program("p1", BpfLoader, TRUE, <<1, 2>>),
      Program("p2", BpfLoaderDeprecated, TRUE, <<>>),
      Program("p1", BpfLoader, FALSE, <<1>>),
      Program("p2", SystemProgram, TRUE, <<3, 0, 0, 0>>),
      Program("p1", BpfLoaderUpgradeable, FALSE, ProgramDataSome \o <<7, 8>>),
      Program("p2", BpfLoaderUpgradeable, FALSE, ProgramDataNone),
      Program("p1", BpfLoaderUpgradeable, FALSE,
              ProgramDataNone \o Zeros(32) \o <<9>>),
      Program("p2", BpfLoaderUpgradeable, FALSE, <<2, 0, 0, 0>> \o Zeros(32)),
      Program("p1", BpfLoaderUpgradeable, FALSE, <<>>),
      Program("p2", BpfLoaderUpgradeable, FALSE,
              <<3, 0, 0, 0>> \o Zeros(8) \o <<2>> \o Zeros(32)),
      Program("p1", BpfLoaderUpgradeable, TRUE, <<0, 0, 0, 0>>),
      Program("p2", BpfLoaderUpgradeable, FALSE, ProgramDataSome),
      Program("p1", BpfLoader, TRUE, Zeros(BlockSize)),
      Program("p2", BpfLoader, TRUE, Zeros(ChunkSize + 1)) }

\* format!("{}.so", address)
SoName(pubkey) == <<pubkey, ".so">>

\* Builder::append hands an entry to the writer in a sequence of writes: the
\* header block, the data in chunks of at most ChunkSize bytes (the buffer of
\* io::copy), and the zero padding up to the next multiple of the block
\* size.
DataChunks(len) == (len + ChunkSize - 1) \div ChunkSize

EntryWrites(data) ==
    <<"header">>
        \o [k \in 1..DataChunks(Len(data)) |-> "data"]
        \o (IF Len(data) % BlockSize # 0 THEN <<"padding">> ELSE <<>>)

\* The number of bytes of the data that the writes have handed over.
DataWritten(data, written) ==
    LET chunks == Cardinality({k \in 1..Len(written) : written[k] = "data"})
    IN  IF chunks * ChunkSize < Len(data) THEN chunks * ChunkSize ELSE Len(data)

\* An entry of the output: its header fields, the writes that reached the
\* output in full (written), the data bytes among them, and whether a part
\* of the bytes of a refused write reached it as well (torn).
TarOutEntry(address, data, written, torn) ==
    [ name |-> SoName(address), size |-> Len(data), mode |-> "644",
      bytes |-> SubSeq(data, 1, DataWritten(data, written)),
      written |-> written, torn |-> torn ]

\* write_executable: the header is built and builder.append writes the
\* entry.  failAt is the number of the write the writer refuses (0, or more
\* than the writes there are: none), partial tells whether the writer took a
\* part of the bytes of that write.  On Err the writes before the refused
\* one stay in the output.
write_executable(out_tar, address, data, failAt, partial) ==
    LET writes == EntryWrites(data)
    IN  IF failAt = 0 \/ failAt > Len(writes)
        THEN [res |-> "Ok", writeFailed |-> FALSE,
              tar |-> Append(out_tar, TarOutEntry(address, data, writes, FALSE))]
        ELSE [res |-> "Err", writeFailed |-> TRUE,
              tar |-> IF failAt = 1 /\ ~partial
                      THEN out_tar
                      ELSE Append(out_tar,
                               TarOutEntry(address, data,
                                           SubSeq(writes, 1, failAt - 1), partial))]

\* &account.data[45..]
ProgramBytes(data) == SubSeq(data, ProgramDataHeaderLen + 1, Len(data))

\* A return of insert_account that did not come from the writer.
DumpReturn(res, out_tar) == [res |-> res, writeFailed |-> FALSE, tar |-> out_tar]

\* ProgramDumper::insert_account.
dumper_insert_account(out_tar, account, failAt, partial) ==
    IF account.owner \in {BpfLoaderDeprecated, BpfLoader}
    THEN IF account.executable
         THEN write_executable(out_tar, account.pubkey, account.data, failAt,
                               partial)
         ELSE DumpReturn("Ok", out_tar)
    ELSE IF account.owner = BpfLoaderUpgradeable
    THEN LET header == DeserializeLoaderState(account.data)
         IN  IF header = "Err"
             THEN DumpReturn("Err", out_tar)
             ELSE IF header = "ProgramData"
             THEN IF Len(account.data) < ProgramDataHeaderLen
                  THEN DumpReturn("panic", out_tar)
                  ELSE write_executable(out_tar, account.pubkey,
                                        ProgramBytes(account.data), failAt,
                                        partial)
             ELSE DumpReturn("Ok", out_tar)
    ELSE DumpReturn("Ok", out_tar)

DumpStart ==
    /\ dumppc = "start"
    /\ dumppc' = IF Len(dumpInput) = 0 THEN "done_ok" ELSE "run"
    /\ UNCHANGED <<dumpInput, dumpNext, tarOut, dumpLog>>
    /\ UNCHANGED <<loaderVars, sqlVars, parVars, avVars, eqVars, ingVars, progVars>>

\* One turn of the loop of on_append_vec: insert_account on the next record.
\* The log keeps the record, the result, whether the writer took all it was
\* given (writeOk) and the entries the call added to the output.
DumpRecord ==
    /\ dumppc = "run"
    /\ \E failAt \in 0..MaxWrites, partial \in BOOLEAN :
          LET account == dumpInput[dumpNext + 1]
              r == dumper_insert_account(tarOut, account, failAt, partial)
          IN  /\ tarOut' = r.tar
              /\ dumpLog' = Append(dumpLog,
                    [ account |-> account, res |-> r.res,
                      writeOk |-> ~r.writeFailed,
                      wrote |-> SubSeq(r.tar, Len(tarOut) + 1, Len(r.tar)) ])
              /\ IF r.res = "Ok"
                 THEN /\ dumpNext' = dumpNext + 1
                      /\ dumppc' = IF dumpNext + 1 = Len(dumpInput)
                                   THEN "done_ok" ELSE dumppc
                 ELSE /\ dumpNext' = dumpNext
                      /\ dumppc' = IF r.res = "panic" THEN "panicked"
                                   ELSE "done_err"
    /\ UNCHANGED dumpInput
    /\ UNCHANGED <<loaderVars, sqlVars, parVars, avVars, eqVars, ingVars, progVars>>

InitDumper ==
    /\ dumpInput \in SeqsUpTo(DumpRecordPool, MaxDumpRecs)
    /\ dumppc = "start"
    /\ dumpNext = 0
    /\ tarOut = <<>>
    /\ dumpLog = <<>>
\* the other components are not running
    /\ kind = "none"
    /\ tar = <<>>
    /\ dir = EmptyDir
    /\ manifestIdx = 0
    /\ openResult = "none"
    /\ accounts_db_fields = NoFields
    /\ entries = NoEntries
    /\ it = NoIter
    /\ iterCalls = 0
    /\ out = <<>>
    /\ visited = <<>>
    /\ spc = "idle"
    /\ fsTarget = "absent"
    /\ fsTemp = "absent"
    /\ guardPath = FALSE
    /\ dbOpen = FALSE
    /\ queryOnly = FALSE
    /\ ingested = 0
    /\ sqlInput = <<>>
    /\ sqlNext = 0
    /\ sqlHistory = <<>>
    /\ targetAtStart = "absent"
    /\ exporter = "none"
    /\ num_threads = 0
    /\ parInput = <<>>
    /\ parNext = 0
    /\ ppc = "idle"
    /\ held = 0
    /\ chan = <<>>
    /\ txAlive = FALSE
    /\ wstate = <<>>
    /\ wcur = <<>>
    /\ accepted = {}
    /\ received = <<>>
    /\ parResult = "none"
    /\ avLen = 0
    /\ avRecs = <<>>
    /\ avpc = "idle"
    /\ offsets = <<>>
    /\ offset = 0
    /\ handles = <<>>
    /\ eqTar = <<>>
    /\ eqManifest = 0
    /\ eqpc = "idle"
    /\ eqDir = EmptyDir
    /\ eqArchive = NoRun
    /\ eqUnpacked = NoRun
    /\ ingTokens = FALSE
    /\ ingVecs = <<>>
    /\ ingOrder = <<>>
    /\ ingpc = "idle"
    /\ ingAv = 0
    /\ ingRec = 0
    /\ tables = EmptyDb
    /\ progress = ZeroProgress
    /\ ingLog = <<>>
    /\ counter = 0
    /\ pending = <<>>
    /\ positions = <<>>
    /\ pbState = "idle"

NextDumper ==
    \/ DumpStart
    \/ DumpRecord

SpecDumper == InitDumper /\ [][NextDumper]_vars

\* An executable program account: owned by bpf_loader or
\* bpf_loader_deprecated with executable set, or owned by
\* bpf_loader_upgradeable with data the deserializer accepts as ProgramData.
ExecutableProgram(account) ==
    \/ account.owner \in {BpfLoader, BpfLoaderDeprecated} /\ account.executable
    \/ /\ account.owner = BpfLoaderUpgradeable
       /\ DeserializeLoaderState(account.data) = "ProgramData"

\* The bytes the entry of an executable program account is to hold.
ExpectedBytes(account) ==
    IF account.owner = BpfLoaderUpgradeable
    THEN SubSeq(account.data, 46, Len(account.data))
    ELSE account.data

\* C16: every record the dumper has processed (the tar writer taking what
\* it is given) has put exactly one <pubkey>.so entry into the tar if it is
\* an executable program account, and none otherwise; the entry is whole
\* and the entry of an upgradeable program holds data[45..].
C16_OneEntryPerProgram ==
    \A k \in 1..Len(dumpLog) :
        dumpLog[k].writeOk =>
            IF ExecutableProgram(dumpLog[k].account)
            THEN /\ Len(dumpLog[k].wrote) = 1
                 /\ dumpLog[k].wrote[1].name = SoName(dumpLog[k].account.pubkey)
                 /\ dumpLog[k].wrote[1].bytes = ExpectedBytes(dumpLog[k].account)
                 /\ dumpLog[k].wrote[1].written
                        = EntryWrites(ExpectedBytes(dumpLog[k].account))
                 /\ ~dumpLog[k].wrote[1].torn
            ELSE dumpLog[k].wrote = <<>>

(***************************************************************************)
(* Which tar entries the archive loader takes for what.                    *)
(***************************************************************************)
\* C21: in both phases of archive reading a readable entry is taken for an
\* AppendVec only if its path is accounts/<slot>.<id>, and for a manifest
\* only if its path is snapshots/<N>/<N>; every other readable entry
\* produces neither an item (an AppendVec or an error) nor a result of open.
C21_OnlyExactPathsAreClassified ==
    kind = "archive" =>
        /\ openResult = "UnexpectedAppendVec"
                => IsAppendVecEntry(tar[Len(visited)])
        /\ entries.some => IsManifestEntry(tar[entries.pos])
        /\ \A n \in 1..Len(out) :
              tar[out[n].src].kind = "ok" => is_appendvec_file(tar[out[n].src].path)

(***************************************************************************)
(* ProgressCounter (sqlite.rs): inc() from the threads that share the      *)
(* counter, and its Drop.                                                  *)
(***************************************************************************)
MaxCount == 2050
IncThreads == 2

ProgressPeriod == 1024

\* A publication at every increment.
ShouldPublish_Always(count) == TRUE

\* if count % 1024 == 0
ShouldPublish(count) == count % ProgressPeriod = 0

\* inc(), first half: fetch_add(1) returns the value before the addition;
\* a count that is not to be published ends the call.  The counts of the
\* model stay below MaxCount, far from 2^64 where fetch_add wraps.
ProgInc(t) ==
    /\ pbState = "live"
    /\ pending[t] = None
    /\ counter < MaxCount
    /\ LET count == counter
       IN  /\ counter' = counter + 1
           /\ pending' = IF ShouldPublish(count)
                         THEN [pending EXCEPT ![t] = count]
                         ELSE pending
    /\ UNCHANGED <<positions, pbState>>
    /\ UNCHANGED <<loaderVars, sqlVars, parVars, avVars, eqVars, ingVars, dumpVars>>

\* inc(), second half: progress_bar.lock().unwrap().set_position(count).
ProgPublish(t) ==
    /\ pbState = "live"
    /\ pending[t] # None
    /\ positions' = Append(positions, [pos |-> pending[t], by |-> "inc"])
    /\ pending' = [pending EXCEPT ![t] = None]
    /\ UNCHANGED <<counter, pbState>>
    /\ UNCHANGED <<loaderVars, sqlVars, parVars, avVars, eqVars, ingVars, dumpVars>>

\* Drop: set_position(self.get()) and finish().  The counter is dropped when
\* no thread is inside inc().
ProgDrop ==
    /\ pbState = "live"
    /\ \A t \in DOMAIN pending : pending[t] = None
    /\ positions' = Append(positions, [pos |-> counter, by |-> "drop"])
    /\ pbState' = "finished"
    /\ UNCHANGED <<counter, pending>>
    /\ UNCHANGED <<loaderVars, sqlVars, parVars, avVars, eqVars, ingVars, dumpVars>>

InitProgress ==
    /\ counter = 0
    /\ pending = [t \in 1..IncThreads |-> None]
    /\ positions = <<>>
    /\ pbState = "live"
\* the other components are not running
    /\ kind = "none"
    /\ tar = <<>>
    /\ dir = EmptyDir
    /\ manifestIdx = 0
    /\ openResult = "none"
    /\ accounts_db_fields = NoFields
    /\ entries = NoEntries
    /\ it = NoIter
    /\ iterCalls = 0
    /\ out = <<>>
    /\ visited = <<>>
    /\ spc = "idle"
    /\ fsTarget = "absent"
    /\ fsTemp = "absent"
    /\ guardPath = FALSE
    /\ dbOpen = FALSE
    /\ queryOnly = FALSE
    /\ ingested = 0
    /\ sqlInput = <<>>
    /\ sqlNext = 0
    /\ sqlHistory = <<>>
    /\ targetAtStart = "absent"
    /\ exporter = "none"
    /\ num_threads = 0
    /\ parInput = <<>>
    /\ parNext = 0
    /\ ppc = "idle"
    /\ held = 0
    /\ chan = <<>>
    /\ txAlive = FALSE
    /\ wstate = <<>>
    /\ wcur = <<>>
    /\ accepted = {}
    /\ received = <<>>
    /\ parResult = "none"
    /\ avLen = 0
    /\ avRecs = <<>>
    /\ avpc = "idle"
    /\ offsets = <<>>
    /\ offset = 0
    /\ handles = <<>>
    /\ eqTar = <<>>
    /\ eqManifest = 0
    /\ eqpc = "idle"
    /\ eqDir = EmptyDir
    /\ eqArchive = NoRun
    /\ eqUnpacked = NoRun
    /\ ingTokens = FALSE
    /\ ingVecs = <<>>
    /\ ingOrder = <<>>
    /\ ingpc = "idle"
    /\ ingAv = 0
    /\ ingRec = 0
    /\ tables = EmptyDb
    /\ progress = ZeroProgress
    /\ ingLog = <<>>
    /\ dumpInput = <<>>
    /\ dumppc = "idle"
    /\ dumpNext = 0
    /\ tarOut = <<>>
    /\ dumpLog = <<>>

NextProgress ==
    \/ \E t \in DOMAIN pending : ProgInc(t)
    \/ \E t \in DOMAIN pending : ProgPublish(t)
    \/ ProgDrop

SpecProgress == InitProgress /\ [][NextProgress]_vars

\* The publications made by inc().
IncPublications == {k \in 1..Len(positions) : positions[k].by = "inc"}

\* The number of increments whose count was a multiple of the period.
PeriodsStarted == IF counter = 0 THEN 0 ELSE (counter - 1) \div ProgressPeriod + 1

\* C22: a progress counter is published once every 1024 increments (by the
\* increments that find the count at a multiple of 1024, each once), and
\* every published position is a value the counter has held (the counter
\* takes every value from 0 to its current one) and is never greater than
\* the current value of the counter.
C22_PublishedEveryPeriod ==
    pbState # "idle" =>
        /\ \A k \in 1..Len(positions) : positions[k].pos \in 0..counter
        /\ \A k \in IncPublications : positions[k].pos % 1024 = 0
        /\ \A k, l \in IncPublications :
              k # l => positions[k].pos # positions[l].pos
        /\ Cardinality(IncPublications)
              + Cardinality({t \in DOMAIN pending : pending[t] # None})
           = PeriodsStarted

C22_Witness ==
    /\ \E k, l \in IncPublications :
          k < l /\ positions[k].pos = 2048 /\ positions[l].pos = 1024
    /\ counter > 2048

(***************************************************************************)
(* What one insert_account call does to the tables.                        *)
(***************************************************************************)
\* The record the next IngestRecord step hands to insert_account.
CurrentRecord == ingVecs[ingOrder[ingAv + 1]][ingRec + 1]

\* The result of the call a step has just made.
LastCall == ingLog'[Len(ingLog')]

SameTable(name) == tables'[name] = tables[name]

\* The rows of the signers signers[..j] of a Multisig record.
MultisigRowsUpTo(account, j) ==
    { [ pubkey |-> account.pubkey, signer |-> account.data.signers[k],
        m |-> account.data.m, n |-> account.data.n ] :
      k \in 1..j }

MultisigRows(account) == MultisigRowsUpTo(account, account.data.n)

\* A table after INSERT OR REPLACE of the rows: each takes the place of the
\* rows with its key.
Replaced(table, rows, cols) ==
    {r \in table : \A q \in rows : KeyOf(r, cols) # KeyOf(q, cols)} \cup rows

TokenRow(account) == [pubkey |-> account.pubkey, val |-> account.data.val]

\* The call has failed in a statement after the one of the account table.
TokenStatementFailed == ~LastCall.dbOk /\ LastCall.stmt >= 2

\* What a call of insert_account on a record does to the three token tables
\* (inserted: the data unpacks and SQLite executed every statement).  A
\* statement SQLite failed may have left its row.  perIndex: the rows of a
\* Multisig record are as many as its signer indices.
TokenDispatch(account, perIndex) ==
    LET inserted == LastCall.dbOk /\ account.data.unpackOk
        failed == TokenStatementFailed /\ account.data.unpackOk
    IN  IF account.owner # TokenProgram
        THEN SameTable("token_account") /\ SameTable("token_mint")
                /\ SameTable("token_multisig")
        ELSE IF account.data.len = AccountLEN
        THEN /\ SameTable("token_mint") /\ SameTable("token_multisig")
             /\ IF inserted
                THEN tables'.token_account =
                        InsertOrReplace(tables.token_account, TokenRow(account),
                                        <<"pubkey">>)
                ELSE IF failed
                THEN tables'.token_account \in
                        { tables.token_account,
                          InsertOrReplace(tables.token_account,
                                          TokenRow(account), <<"pubkey">>) }
                ELSE SameTable("token_account")
        ELSE IF account.data.len = MintLEN
        THEN /\ SameTable("token_account") /\ SameTable("token_multisig")
             /\ IF inserted
                THEN tables'.token_mint =
                        InsertOrReplace(tables.token_mint, TokenRow(account),
                                        <<"pubkey">>)
                ELSE IF failed
                THEN tables'.token_mint \in
                        { tables.token_mint,
                          InsertOrReplace(tables.token_mint, TokenRow(account),
                                          <<"pubkey">>) }
                ELSE SameTable("token_mint")
        ELSE IF account.data.len = MultisigLEN
        THEN /\ SameTable("token_account") /\ SameTable("token_mint")
             /\ IF inserted
                THEN /\ tables'.token_multisig =
                            Replaced(tables.token_multisig,
                                     MultisigRows(account),
                                     <<"pubkey", "signer">>)
                     /\ perIndex =>
                            Cardinality(MultisigRows(account)
                                            \cap tables'.token_multisig)
                                = account.data.n
                ELSE IF failed
                THEN \* the rows of the signers before the failed statement,
                     \* and perhaps the row of that statement
                     \E j \in {LastCall.stmt - 2, LastCall.stmt - 1} :
                        tables'.token_multisig =
                            Replaced(tables.token_multisig,
                                     MultisigRowsUpTo(account, j),
                                     <<"pubkey", "signer">>)
                ELSE SameTable("token_multisig")
        ELSE /\ SameTable("token_account") /\ SameTable("token_mint")
             /\ SameTable("token_multisig")
             /\ LastCall.dbOk => LastCall.ok

EditionNonceColumn(data) == IF data.ext1 = "err" THEN "null" ELSE data.ext1

CollectionColumns(data) ==
    IF data.ext1 = "err" THEN "null"
    ELSE IF data.ext2 = "err" THEN "null"
    ELSE data.ext2

ProducesMetadataRow(account) ==
    /\ account.owner = MetaplexProgram
    /\ account.data.len # 0
    /\ account.data.key = "MetadataV1"
    /\ account.data.bodyOk

MetadataRow(account) ==
    [ pubkey |-> account.pubkey, val |-> account.data.val,
      edition_nonce |-> EditionNonceColumn(account.data),
      collection |-> CollectionColumns(account.data) ]

\* What a call of insert_account on a record does to token_metadata.  The
\* insert SQLite failed (the second statement of the call) may have left
\* its row.
MetadataDispatch(account) ==
    IF ~ProducesMetadataRow(account)
    THEN SameTable("token_metadata")
    ELSE IF LastCall.dbOk
    THEN /\ LastCall.ok
         /\ tables'.token_metadata =
               Append(tables.token_metadata, MetadataRow(account))
    ELSE IF LastCall.stmt = 2
    THEN /\ ~LastCall.ok
         /\ tables'.token_metadata \in
               { tables.token_metadata,
                 Append(tables.token_metadata, MetadataRow(account)) }
    ELSE SameTable("token_metadata")

\* C24: for a Metaplex-owned record only the MetadataV1 discriminator
\* produces a token_metadata row; the V1.1 and the V1.2 extension are
\* decoded optionally, a failure of either leaves its columns NULL and the
\* insert succeeds, and the V1.2 extension is decoded only when the V1.1
\* extension was.
C24_MetadataExtensionsOptional ==
    [][ingpc = "run" => MetadataDispatch(CurrentRecord)]_vars

C24_Witness ==
    /\ \E k \in 1..Len(tables.token_metadata) :
          /\ tables.token_metadata[k].edition_nonce = "some"
          /\ tables.token_metadata[k].collection = "null"
    /\ \E k \in 1..Len(ingLog) :
          /\ ingLog[k].ok
          /\ ingLog[k].account.owner = MetaplexProgram
          /\ ingLog[k].account.data.ext1 = "err"
          /\ ingLog[k].account.data.ext2 = "some"
          /\ \E j \in 1..Len(tables.token_metadata) :
                /\ tables.token_metadata[j].val = ingLog[k].account.data.val
                /\ tables.token_metadata[j].edition_nonce = "null"
                /\ tables.token_metadata[j].collection = "null"

(***************************************************************************)
(* The accounts the program dumper passes over.                            *)
(***************************************************************************)
\* An account that is to be skipped: not an executable program account, or
\* an upgradeable-loader account with data shorter than the header.
SkippedAccount(account) ==
    \/ ~ExecutableProgram(account)
    \/ /\ account.owner = BpfLoaderUpgradeable
       /\ Len(account.data) < ProgramDataHeaderLen

\* C25: insert_account of the program dumper writes no tar entry and returns
\* Ok, without a panic, for every account that is not an executable
\* bpf_loader / bpf_loader_deprecated account or an upgradeable-loader
\* ProgramData account, the upgradeable-loader accounts with empty,
\* undecodable or too short data included.
C25_OtherAccountsSkipped ==
    \A k \in 1..Len(dumpLog) :
        SkippedAccount(dumpLog[k].account) =>
            /\ dumpLog[k].res = "Ok"
            /\ dumpLog[k].wrote = <<>>

(***************************************************************************)
(* The order of the steps of insert_all.                                   *)
(***************************************************************************)
\* The places of a step in the history of the export.
StepsNamed(name) == {k \in 1..Len(sqlHistory) : sqlHistory[k] = name}

Before(first, second) ==
    \A k \in StepsNamed(first), l \in StepsNamed(second) : k < l

\* C26: on the success path of insert_all every AppendVec is ingested, then
\* query_only is set, then the temp file is renamed to the target, and the
\* connection is closed after query_only was set; no AppendVec is ingested
\* after query_only is set, and the rename does not happen when an earlier
\* step failed.
C26_InsertAllStepOrder ==
    exporter = "indexer" =>
    /\ spc = "done_ok" =>
          /\ Cardinality(StepsNamed("ingest")) = Len(sqlInput)
          /\ Cardinality(StepsNamed("query_only")) = 1
          /\ Cardinality(StepsNamed("rename")) = 1
          /\ Cardinality(StepsNamed("close")) = 1
          /\ Before("ingest", "query_only")
          /\ Before("query_only", "rename")
          /\ Before("query_only", "close")
    /\ Before("ingest", "query_only")
    /\ StepsNamed("rename") # {} =>
          /\ \A i \in 1..Len(sqlInput) : sqlInput[i] = "ok"
          /\ StepsNamed("query_only") # {}
          /\ Before("query_only", "rename")

C26_Witness ==
    /\ exporter = "indexer"
    /\ spc = "done_ok"
    /\ Len(sqlInput) >= 2
    /\ StepsNamed("rename") # {}
    /\ sqlHistory[Len(sqlInput) + 1] = "query_only"

(***************************************************************************)
(* The account table after an ingest.                                      *)
(***************************************************************************)
\* The row of the account table a record gives.
AccountRow(account) ==
    [ pubkey |-> account.pubkey, data_len |-> account.data.len,
      owner |-> account.owner, lamports |-> account.lamports,
      executable |-> account.executable, rent_epoch |-> account.rent_epoch ]

\* The last record processed for a pubkey.
LastProcessed(k) ==
    \A l \in (k + 1)..Len(ingLog) :
        ingLog[l].account.pubkey # ingLog[k].account.pubkey

\* C27: after a successful ingest the account table holds exactly one row
\* per distinct pubkey seen, and the row carries the fields of the last
\* record processed for that pubkey.
C27_AccountTableLastWins ==
    ingpc = "done_ok" =>
        /\ {r.pubkey : r \in tables.account}
              = {ingLog[k].account.pubkey : k \in 1..Len(ingLog)}
        /\ \A r, q \in tables.account : r.pubkey = q.pubkey => r = q
        /\ \A k \in 1..Len(ingLog) :
              LastProcessed(k) => AccountRow(ingLog[k].account) \in tables.account

C27_Witness ==
    /\ ingpc = "done_ok"
    /\ \E j, k \in 1..Len(ingLog) :
          /\ j < k
          /\ LastProcessed(k)
          /\ ingLog[j].account.pubkey = ingLog[k].account.pubkey
          /\ ingLog[j].account.lamports > ingLog[k].account.lamports
          /\ AccountRow(ingLog[k].account) \in tables.account

(***************************************************************************)
(* par_iter_append_vecs under fair scheduling: the driver thread and every *)
(* worker thread keep taking the steps they can take.                      *)
(***************************************************************************)
DriverStep == ParStart \/ ParPull \/ ParSend \/ ParJoin

WorkerStep(w) ==
    /\ w \in Workers
    /\ (WorkerRecv(w) \/ WorkerDisconnected(w) \/ WorkerFinish(w))

SpecParFair ==
    /\ InitPar
    /\ [][NextPar]_vars
    /\ WF_vars(DriverStep)
    /\ \A w \in 1..MaxThreads : WF_vars(WorkerStep(w))

\* C28: for num_threads >= 1 and a finite iterator par_iter_append_vecs
\* returns in the end under fair scheduling, also when workers die from a
\* sink error: the driver does not wait forever in a send to a full channel.
C28_DriverEventuallyReturns ==
    (num_threads >= 1) ~> (ppc = "done")

(***************************************************************************)
(* Delivery of the AppendVecs to the workers.                              *)
(***************************************************************************)
\* The receptions of an AppendVec by the workers.
Receptions(i) == {k \in 1..Len(received) : received[k] = i}

NoWorkerFailed == \A w \in Workers : wstate[w] # "panicked"

\* C29: every AppendVec the driver sent is received by at most one worker,
\* and when no worker has failed and the driver has returned Ok every
\* AppendVec the iterator yielded was received by exactly one worker and
\* went through its on_append_vec, whatever the interleaving.
C29_DeliveredExactlyOnce ==
    /\ \A i \in 1..Len(parInput) : Cardinality(Receptions(i)) <= 1
    /\ \A i \in Range(chan) : Receptions(i) = {}
    /\ (ppc = "done" /\ parResult = "Ok" /\ NoWorkerFailed) =>
          \A i \in YieldedOk :
              /\ Cardinality(Receptions(i)) = 1
              /\ i \in accepted

C29_Witness ==
    /\ ppc = "done"
    /\ parResult = "Ok"
    /\ NoWorkerFailed
    /\ num_threads = 2
    /\ Len(parInput) = 3
    /\ accepted = {1, 2, 3}

(***************************************************************************)
(* The counters at the end of an ingest.                                   *)
(***************************************************************************)
\* The calls of insert_account that have returned Ok.
CompletedCalls == {k \in 1..Len(ingLog) : ingLog[k].ok}

\* The calls on a token-program record that was decoded and inserted.
TokenInsertedCalls ==
    {k \in CompletedCalls :
        /\ ingLog[k].account.owner = TokenProgram
        /\ ingLog[k].account.data.len \in {AccountLEN, MintLEN, MultisigLEN}
        /\ ingLog[k].account.data.unpackOk}

IngestEnded == ingpc \in {"done_ok", "done_err"}

\* C30: at the end of an ingest the token_accounts counter is the number of
\* token-program records that were decoded and inserted, and the accounts
\* counter is the number of records for which insert_account returned Ok.
C30_CountersMatchInserts ==
    IngestEnded =>
        /\ progress.token_accounts_counter = Cardinality(TokenInsertedCalls)
        /\ progress.accounts_counter = Cardinality(CompletedCalls)

====
